---- MODULE Spec2Model ----
(***************************************************************************)
(* Verification model of the RAF / resource-summary tooling.               *)
(*                                                                         *)
(* Each component of the program is a small state machine over its own     *)
(* variables: the inputs are drawn in the component's initial predicate,   *)
(* one action applies the operation as the source computes it, and the     *)
(* other components' variables stay at their idle values.                  *)
(*                                                                         *)
(* Conventions for table cells:                                            *)
(*   - a nullable number is a sequence: <<>> is None/NaN, <<v>> is v;       *)
(*   - a nullable text cell is a string, with None and NaN as the two      *)
(*     distinguished values below (NaN is what pandas reads from an empty  *)
(*     spreadsheet cell, None is what row.get gives for an absent column). *)
(***************************************************************************)
EXTENDS Integers, Sequences, FiniteSets, TLC

VARIABLES
    \* validate_dataframe
    v_pc, df_columns, required_columns, is_valid, missing_columns,
    \* calculate_raf
    raf_pc, deployments_df, result_df,
    \* ResourceSummaryWorker.run: the pivot table, the project -> phase
    \* lookup, the checked phase boxes, self.phases_checked and the table
    \* the run calls result_df
    rs_pc, pivot_df, phase_dict, checked_boxes, phases_checked, summary_df,
    \* create_pivot_table: the consumption table with its 'Charge JH' and the
    \* pivot returned
    pt_pc, charge_df, pivot_result,
    \* calculate_monthly_raf and create_raf_summary_sheet: the deployments
    \* table with 'Date de MEP' and 'RAF', the monthly table returned, and
    \* the data rows written to the 'RAF Summary' sheet
    m_pc, mep_df, monthly_result, sh_pc, raf_sheet,
    \* a call of a RAF function on a table of the caller: the objects in
    \* memory, the caller's reference, the caller's table as it was before
    \* the call, and the reference returned
    f_pc, f_call, heap, caller_df, caller_before, returned,
    \* a run of one of the four flows: its position, which flow it is,
    \* whether the summary has a figure to draw, the steps executed after
    \* validation, the signals emitted, the messages printed, and the output
    \* file; then the signals of the worker in the order of their emission
    \* and the exception raised inside run, if any
    fl_pc, fl_step, flow, has_figures, effects, finished_signal, printed, output_file,
    emitted, fl_raised,
    \* read_excel: the files that exist with their workbooks, the path asked
    \* for, the paths pandas was asked to read, the exception raised and the
    \* table returned
    rd_pc, file_system, file_path, rd_reads, rd_raised, rd_df,
    \* write_excel and write_multiple_sheets: the function called, the table
    \* handed to it and the sheets of the workbook written
    w_pc, w_call, w_df, workbook,
    \* the end of ResourceSummaryWorker.run: result_df after the
    \* recomputation, self.columns and high_ca_df
    out_pc, out_df, self_columns, high_ca_df,
    \* add_raf_to_workbook: the workbook objects in memory, the reference
    \* handed to the function, the workbook as it was before the call, the
    \* 'RAF' column of the table and the reference returned
    wb_pc, wb_heap, wb_arg, wb_before, wb_raf, wb_result,
    \* a tab of the window and its worker threads: which tab it is, whether it is
    \* enabled, whether the progress bar shows, the kind of the status message,
    \* the number of worker threads running, the signals emitted and not yet
    \* handled by the UI thread, the runs started, the progress_update signals of
    \* the current worker and the error dialogs shown
    tab, tab_enabled, progress_visible, status, workers, queue, runs, progress_sent, errors_shown,
    \* the two calculate_raf on one deployments table and on a reordering of
    \* it: the table, the reordering, the calls made and what each returned
    eq_df, eq_perm, eq_done, eq_out

validateVars == <<v_pc, df_columns, required_columns, is_valid, missing_columns>>
rafVars == <<raf_pc, deployments_df, result_df>>
summaryVars == <<rs_pc, pivot_df, phase_dict, checked_boxes, phases_checked, summary_df>>
pivotVars == <<pt_pc, charge_df, pivot_result>>
mepVars == <<m_pc, mep_df, monthly_result, sh_pc, raf_sheet>>
frameVars == <<f_pc, f_call, heap, caller_df, caller_before, returned>>
flowVars == <<fl_pc, fl_step, flow, has_figures, effects, finished_signal, printed, output_file, emitted, fl_raised>>
readVars == <<rd_pc, file_system, file_path, rd_reads, rd_raised, rd_df>>
writeVars == <<w_pc, w_call, w_df, workbook>>
outputVars == <<out_pc, out_df, self_columns, high_ca_df>>
workbookVars == <<wb_pc, wb_heap, wb_arg, wb_before, wb_raf, wb_result>>
tabVars == <<tab, tab_enabled, progress_visible, status, workers, queue, runs, progress_sent, errors_shown>>
equivVars == <<eq_df, eq_perm, eq_done, eq_out>>
vars == <<validateVars, rafVars, summaryVars, pivotVars, mepVars, frameVars, flowVars, readVars, writeVars, outputVars, workbookVars, tabVars, equivVars>>

\* ------------------------------------------------------------------ values

None == "None"
NaN == "NaN"
Null == <<>>
Some(v) == <<v>>

\* Python truthiness of a text cell: None and "" are falsy; NaN, a float
\* that is not zero, is truthy, like every non-empty string.
Truthy(v) == v \notin {None, ""}

Range(s) == {s[i] : i \in DOMAIN s}

\* All sequences over S of length 0..n.
SeqsUpTo(S, n) == UNION {[1..k -> S] : k \in 0..n}

RECURSIVE SumSeq(_)
SumSeq(s) == IF s = <<>> THEN 0 ELSE Head(s) + SumSeq(Tail(s))

\* ------------------------------------------------------------------ bounds

MaxRequired == 3
MaxRafRows == 2
MaxCharge == 2
MaxPivotRows == 3
MaxMepRows == 2
MaxSheetRows == 2
MaxOutRows == 2

\* ------------------------------------------------------- validate_dataframe

ColumnNames == {"a", "b", "c"}

\* The list comprehension of validate_dataframe: the required names, in
\* order, that are not among the available columns.
RECURSIVE MissingFrom(_, _)
MissingFrom(required, available) ==
    IF required = <<>> THEN <<>>
    ELSE (IF Head(required) \notin available THEN <<Head(required)>> ELSE <<>>)
         \o MissingFrom(Tail(required), available)

\* Mutant: the missing names accumulated by prepending, so they come out in
\* the reverse of the caller's order.
RECURSIVE MissingFromReversed(_, _)
MissingFromReversed(required, available) ==
    IF required = <<>> THEN <<>>
    ELSE MissingFromReversed(Tail(required), available)
         \o (IF Head(required) \notin available THEN <<Head(required)>> ELSE <<>>)

validate_dataframe_reversed(columns, required) ==
    LET missing == MissingFromReversed(required, columns)
    IN <<Len(missing) = 0, missing>>

validate_dataframe(columns, required) ==
    LET available_columns == columns
        missing == MissingFrom(required, available_columns)
    IN <<Len(missing) = 0, missing>>

ValidateIdle ==
    /\ v_pc = "idle"
    /\ df_columns = {}
    /\ required_columns = <<>>
    /\ is_valid = FALSE
    /\ missing_columns = <<>>

ValidateInputs ==
    /\ v_pc = "call"
    /\ df_columns \in SUBSET ColumnNames
    /\ required_columns \in SeqsUpTo(ColumnNames, MaxRequired)
    /\ is_valid = FALSE
    /\ missing_columns = <<>>

Validate ==
    /\ v_pc = "call"
    /\ LET r == validate_dataframe(df_columns, required_columns)
       IN /\ is_valid' = r[1]
          /\ missing_columns' = r[2]
    /\ v_pc' = "done"
    /\ UNCHANGED <<df_columns, required_columns, rafVars, summaryVars, pivotVars, mepVars, frameVars, flowVars, readVars, writeVars, outputVars, workbookVars, tabVars, equivVars>>

\* ------------------------------------------------------------ calculate_raf

ConnLevels == {"A", "C"}
Phases == {"B", "D"}

\* The rule table behind get_raf.
RafRules == (<<"A", "B">> :> 5) @@ (<<"C", "D">> :> 2)

get_raf(connection_level, project_phase) ==
    IF <<connection_level, project_phase>> \in DOMAIN RafRules
    THEN Some(RafRules[<<connection_level, project_phase>>])
    ELSE Null

ConnCol == "Niveau de connexion"
PhaseCol == "Phase du projet"

\* row.get(col): the cell, or None when the table has no such column.
RowGet(columns, row, col) == IF col \in columns THEN row[col] ELSE None

\* The loop body of calculate_raf for one row: the RAF cell starts as None
\* and is overwritten only when both keys are truthy.
RafOfRow(columns, row) ==
    LET connection_level == RowGet(columns, row, ConnCol)
        project_phase == RowGet(columns, row, PhaseCol)
    IN IF Truthy(connection_level) /\ Truthy(project_phase)
       THEN get_raf(connection_level, project_phase)
       ELSE Null

\* Mutant: the RAF column initialised with 0 instead of None.
calculate_raf_zero_default(df) ==
    [columns |-> df.columns \cup {"RAF"},
     rows |-> [i \in DOMAIN df.rows |->
                 LET r == RafOfRow(df.columns, df.rows[i])
                 IN [df.rows[i] EXCEPT !["RAF"] = IF r = Null THEN Some(0) ELSE r]]]

calculate_raf(df) ==
    [columns |-> df.columns \cup {"RAF"},
     rows |-> [i \in DOMAIN df.rows |->
                 [df.rows[i] EXCEPT !["RAF"] = RafOfRow(df.columns, df.rows[i])]]]

\* A deployments table: which of the two key columns it has, and its rows.
\* A row carries a cell for each key; the cell of an absent column is never
\* read (RowGet) and is fixed to None.  The "RAF" cell is Null until computed.
ConnCells == ConnLevels \cup {"", NaN, None}
PhaseCells == Phases \cup {"", NaN, None}

RafRow(c, p) == (ConnCol :> c) @@ (PhaseCol :> p) @@ ("RAF" :> Null)

RafTables ==
    {[columns |-> cols, rows |-> rows] :
        cols \in SUBSET {ConnCol, PhaseCol},
        rows \in SeqsUpTo({RafRow(c, p) : c \in ConnCells, p \in PhaseCells}, MaxRafRows)}

WellFormedRafTable(t) ==
    \A i \in DOMAIN t.rows :
        /\ (ConnCol \notin t.columns => t.rows[i][ConnCol] = None)
        /\ (PhaseCol \notin t.columns => t.rows[i][PhaseCol] = None)

EmptyTable == [columns |-> {}, rows |-> <<>>]

RafIdle ==
    /\ raf_pc = "idle"
    /\ deployments_df = EmptyTable
    /\ result_df = EmptyTable

RafInputs ==
    /\ raf_pc = "call"
    /\ deployments_df \in {t \in RafTables : WellFormedRafTable(t)}
    /\ result_df = EmptyTable

CalculateRaf ==
    /\ raf_pc = "call"
    /\ result_df' = calculate_raf(deployments_df)
    /\ raf_pc' = "done"
    /\ UNCHANGED <<deployments_df, validateVars, summaryVars, pivotVars, mepVars, frameVars, flowVars, readVars, writeVars, outputVars, workbookVars, tabVars, equivVars>>


\* --------------------------------------------- resource summary: the table

\* Rows of the resource-summary table are records; the fields stand for the
\* columns of the run's result_df:
\*   name, indent    'Resource/ PROJET': the resource name (indent FALSE), or
\*                   the project name behind four spaces (indent TRUE)
\*   charge          'Charge JH'
\*   somme           'Somme de Charge JH'
\*   phase           'Phase du projet'
\*   res             the pivot's 'Ressource' of the row; no step of the run
\*                   reads it, the properties use it to say whose row it is
\* and, while the run works on the table, is_consultant, consultant_id,
\* order ('__original_order') and new_sum.

Resources == <<"R1", "R2">>
Projects == <<"P1", "P2">>

\* Position of a name in a list of distinct names (0 when absent): the
\* lexicographic rank of the names used here.
IndexIn(list, x) == IF \E i \in DOMAIN list : list[i] = x
                    THEN CHOOSE i \in DOMAIN list : list[i] = x
                    ELSE 0

Charges == 0..MaxCharge

\* The boxes of the tab, in the order get_checked_phases reads them (three
\* of the eleven).
PhaseBoxes == <<"Cadrage / spécification", "Développement", "En production (VSR)">>

\* Phases a deployment can carry: two with a box in the model's selection,
\* and NaN for a project missing from the lookup.
ProjectPhases == {"Cadrage / spécification", "Développement"}

RECURSIVE CheckedFrom(_, _)
CheckedFrom(boxes, checked) ==
    IF boxes = <<>> THEN <<>>
    ELSE (IF Head(boxes) \in checked THEN <<Head(boxes)>> ELSE <<>>)
         \o CheckedFrom(Tail(boxes), checked)

\* Mutant: the list of selected phases started empty instead of with "".
get_checked_phases_no_blank(checked) == CheckedFrom(PhaseBoxes, checked)

get_checked_phases(checked) == <<"">> \o CheckedFrom(PhaseBoxes, checked)

\* A pivot table as create_pivot_table returns it: one row per (resource,
\* project) pair, sorted by resource then project.
RECURSIVE PivotRowsOf(_, _)
PivotRowsOf(cells, k) ==
    \* cells: [1..4 -> Charges \cup {-1}], -1 for an absent pair
    IF k > Len(Resources) * Len(Projects) THEN <<>>
    ELSE LET r == Resources[((k - 1) \div Len(Projects)) + 1]
             p == Projects[((k - 1) % Len(Projects)) + 1]
         IN (IF cells[k] = -1 THEN <<>>
             ELSE <<[Ressource |-> r, Projet |-> p, charge |-> Some(cells[k])]>>)
            \o PivotRowsOf(cells, k + 1)

PivotTables ==
    {PivotRowsOf(cells, 1) :
        cells \in [1..(Len(Resources) * Len(Projects)) -> Charges \cup {-1}]}

SumOfCells(cells) == SumSeq([i \in DOMAIN cells |-> IF cells[i] = Null THEN 0 ELSE cells[i][1]])

\* format_resource_summary: per resource, in the pivot's order, a header row
\* carrying the resource's total in 'Somme de Charge JH', then one indented
\* row per project with its workload and its phase from the lookup (NaN on
\* a miss).  Header rows carry the empty phase "".
RECURSIVE FormatRows(_, _, _)
FormatRows(pivot, phases, k) ==
    IF k > Len(pivot) THEN <<>>
    ELSE LET row == pivot[k]
             first == k = 1 \/ pivot[k - 1].Ressource # row.Ressource
             mine == SelectSeq(pivot, LAMBDA x : x.Ressource = row.Ressource)
             header == [name |-> row.Ressource, indent |-> FALSE, charge |-> Null,
                        somme |-> Some(SumOfCells([i \in DOMAIN mine |-> mine[i].charge])),
                        phase |-> "", res |-> row.Ressource]
             project == [name |-> row.Projet, indent |-> TRUE, charge |-> row.charge,
                         somme |-> Null, phase |-> phases[row.Projet], res |-> row.Ressource]
         IN (IF first THEN <<header>> ELSE <<>>) \o <<project>> \o FormatRows(pivot, phases, k + 1)

format_resource_summary(pivot, phases) == FormatRows(pivot, phases, 1)

\* ----------------------------------- resource summary: filter and recompute

AddColumns(row, extra) == extra @@ row
DropColumns(row, names) == [f \in DOMAIN row \ names |-> row[f]]

\* result_df["Resource/ PROJET"].where(is_consultant).ffill(): the name of the
\* nearest consultant row at or above the row, None above the first one.
RECURSIVE ConsultantIds(_, _)
ConsultantIds(rows, last) ==
    IF rows = <<>> THEN <<>>
    ELSE LET id == IF Head(rows).is_consultant THEN Head(rows).name ELSE last
         IN <<id>> \o ConsultantIds(Tail(rows), id)

\* Lines 112-118: the three helper columns.
WithHelperColumns(rows) ==
    LET flagged == [i \in DOMAIN rows |->
                      AddColumns(rows[i], [is_consultant |->
                                             rows[i].charge = Null /\ rows[i].somme # Null])]
        ids == ConsultantIds(flagged, None)
    IN [i \in DOMAIN rows |->
          AddColumns(flagged[i], [consultant_id |-> ids[i], order |-> i - 1])]

\* Mutant: the mask read as (isin | notna) & (!= 0), the precedence of | and &
\* taken the other way round.
KeepRowOtherPrecedence(row, selected) ==
    /\ (row.phase \in Range(selected) \/ row.somme # Null)
    /\ (row.somme = Null \/ row.somme[1] # 0)

\* Lines 120-121: the boolean mask of the phase filter.
KeepRow(row, selected) ==
    \/ row.phase \in Range(selected)
    \/ (row.somme # Null /\ row.somme[1] # 0)

RECURSIVE InsertByOrder(_, _)
InsertByOrder(sorted, row) ==
    IF sorted = <<>> THEN <<row>>
    ELSE IF row.order < Head(sorted).order THEN <<row>> \o sorted
    ELSE <<Head(sorted)>> \o InsertByOrder(Tail(sorted), row)

\* sort_values("__original_order")
RECURSIVE SortByOrder(_)
SortByOrder(rows) ==
    IF rows = <<>> THEN <<>>
    ELSE InsertByOrder(SortByOrder(Tail(rows)), Head(rows))

\* Lines 112-123.
phase_filter(rows, selected) ==
    LET helped == WithHelperColumns(rows)
        kept == SelectSeq(helped, LAMBDA row : KeepRow(row, selected))
        sorted == SortByOrder(kept)
    IN [i \in DOMAIN sorted |-> DropColumns(sorted[i], {"order"})]

\* The distinct values of a list, each at its first position.
RECURSIVE DropDuplicates(_)
DropDuplicates(list) ==
    IF list = <<>> THEN <<>>
    ELSE LET front == DropDuplicates(SubSeq(list, 1, Len(list) - 1))
             x == list[Len(list)]
         IN IF x \in Range(front) THEN front ELSE Append(front, x)

RECURSIVE InsertByRank(_, _)
InsertByRank(sorted, x) ==
    IF sorted = <<>> THEN <<x>>
    ELSE IF IndexIn(Resources, x) < IndexIn(Resources, Head(sorted)) THEN <<x>> \o sorted
    ELSE <<Head(sorted)>> \o InsertByRank(Tail(sorted), x)

RECURSIVE SortNames(_)
SortNames(list) ==
    IF list = <<>> THEN <<>> ELSE InsertByRank(SortNames(Tail(list)), Head(list))

\* projects_only.groupby("consultant_id")["Charge JH"].sum().reset_index():
\* one row per non-null key, keys sorted, the non-null workloads summed.
GroupSums(projects_only) ==
    LET ids == [i \in DOMAIN projects_only |-> projects_only[i].consultant_id]
        keys == SortNames(SelectSeq(DropDuplicates(ids), LAMBDA id : id # None))
    IN [k \in DOMAIN keys |->
          LET of == SelectSeq(projects_only, LAMBDA row : row.consultant_id = keys[k])
          IN [consultant_id |-> keys[k],
              new_sum |-> Some(SumOfCells([i \in DOMAIN of |-> of[i].charge]))]]

\* left.merge(right, on="consultant_id", how="left") for a right table whose
\* only other column is new_sum: every left row, in order, once per matching
\* right row, and once with a null new_sum when none matches.
RECURSIVE LeftMerge(_, _)
LeftMerge(left, right) ==
    IF left = <<>> THEN <<>>
    ELSE LET row == Head(left)
             matches == SelectSeq(right, LAMBDA r : r.consultant_id = row.consultant_id)
         IN (IF matches = <<>> THEN <<AddColumns(row, [new_sum |-> Null])>>
             ELSE [i \in DOMAIN matches |-> AddColumns(row, [new_sum |-> matches[i].new_sum])])
            \o LeftMerge(Tail(left), right)

FillNa0(rows) ==
    [i \in DOMAIN rows |-> IF rows[i].new_sum = Null
                           THEN [rows[i] EXCEPT !.new_sum = Some(0)] ELSE rows[i]]

\* Lines 125-135: the recomputed sum of every consultant still in the table.
ConsultantSums(rows) ==
    LET projects_only == SelectSeq(rows, LAMBDA row : ~row.is_consultant)
        sums == GroupSums(projects_only)
        consultants == SelectSeq(rows, LAMBDA row : row.is_consultant)
        all_consultants == DropDuplicates([i \in DOMAIN consultants |->
                                             consultants[i].consultant_id])
        keyed == [i \in DOMAIN all_consultants |-> [consultant_id |-> all_consultants[i]]]
    IN FillNa0(LeftMerge(keyed, sums))

\* Mutant: the left merge of all_consultants with the sums without fillna(0).
recompute_sums_no_fillna(rows) ==
    LET projects_only == SelectSeq(rows, LAMBDA row : ~row.is_consultant)
        consultants == SelectSeq(rows, LAMBDA row : row.is_consultant)
        all_consultants == DropDuplicates([i \in DOMAIN consultants |->
                                             consultants[i].consultant_id])
        keyed == [i \in DOMAIN all_consultants |-> [consultant_id |-> all_consultants[i]]]
        merged == LeftMerge(rows, LeftMerge(keyed, GroupSums(projects_only)))
        updated == [i \in DOMAIN merged |->
                      IF merged[i].is_consultant
                      THEN [merged[i] EXCEPT !.somme = merged[i].new_sum]
                      ELSE merged[i]]
    IN [i \in DOMAIN updated |->
          DropColumns(updated[i], {"is_consultant", "new_sum", "consultant_id"})]

\* Lines 125-144.
recompute_sums(rows) ==
    LET merged == LeftMerge(rows, ConsultantSums(rows))
        updated == [i \in DOMAIN merged |->
                      IF merged[i].is_consultant
                      THEN [merged[i] EXCEPT !.somme = merged[i].new_sum]
                      ELSE merged[i]]
    IN [i \in DOMAIN updated |->
          DropColumns(updated[i], {"is_consultant", "new_sum", "consultant_id"})]

\* ------------------------------------------ resource summary: the run's steps

SummaryIdle ==
    /\ rs_pc = "idle"
    /\ pivot_df = <<>>
    /\ phase_dict = <<>>
    /\ checked_boxes = {}
    /\ phases_checked = <<>>
    /\ summary_df = <<>>

SummaryInputs ==
    /\ rs_pc = "start"
    /\ pivot_df \in PivotTables
    /\ phase_dict \in [Range(Projects) -> ProjectPhases \cup {NaN}]
    /\ checked_boxes \in SUBSET Range(PhaseBoxes)
    /\ phases_checked = <<>>
    /\ summary_df = <<>>

\* generate_summary: the worker is built with get_checked_phases().
StartWorker ==
    /\ rs_pc = "start"
    /\ phases_checked' = get_checked_phases(checked_boxes)
    /\ rs_pc' = "format"
    /\ UNCHANGED <<pivot_df, phase_dict, checked_boxes, summary_df, validateVars, rafVars, pivotVars, mepVars, frameVars, flowVars, readVars, writeVars, outputVars, workbookVars, tabVars, equivVars>>

\* run, line 106.
FormatSummary ==
    /\ rs_pc = "format"
    /\ summary_df' = format_resource_summary(pivot_df, phase_dict)
    /\ rs_pc' = "filter"
    /\ UNCHANGED <<pivot_df, phase_dict, checked_boxes, phases_checked, validateVars, rafVars, pivotVars, mepVars, frameVars, flowVars, readVars, writeVars, outputVars, workbookVars, tabVars, equivVars>>

\* run, lines 112-123.
PhaseFilter ==
    /\ rs_pc = "filter"
    /\ summary_df' = phase_filter(summary_df, phases_checked)
    /\ rs_pc' = "recompute"
    /\ UNCHANGED <<pivot_df, phase_dict, checked_boxes, phases_checked, validateVars, rafVars, pivotVars, mepVars, frameVars, flowVars, readVars, writeVars, outputVars, workbookVars, tabVars, equivVars>>

\* run, lines 125-144.
RecomputeSums ==
    /\ rs_pc = "recompute"
    /\ summary_df' = recompute_sums(summary_df)
    /\ rs_pc' = "recomputed"
    /\ UNCHANGED <<pivot_df, phase_dict, checked_boxes, phases_checked, validateVars, rafVars, pivotVars, mepVars, frameVars, flowVars, readVars, writeVars, outputVars, workbookVars, tabVars, equivVars>>

\* Line 147 on the table of this run, result_df.loc[0, 'somme ecart'] =
\* result_df['Ecart'].sum(): the new column holds the sum on the row
\* labelled 0, the first row after the merge, and is empty on the others; on
\* a table without rows the assignment adds the row labelled 0, its other
\* cells empty.  The 'Ecart' cells are not part of this table's model, the
\* cell is marked as holding their sum.
somme_ecart_cell(rows) ==
    IF rows = <<>>
    THEN <<[name |-> NaN, indent |-> FALSE, charge |-> Null, somme |-> Null,
            phase |-> NaN, res |-> NaN, somme_ecart |-> "Ecart.sum()"]>>
    ELSE [i \in DOMAIN rows |->
            AddColumns(rows[i], [somme_ecart |-> IF i = 1 THEN "Ecart.sum()" ELSE NaN])]

\* run, line 147.
WriteSommeEcart ==
    /\ rs_pc = "recomputed"
    /\ summary_df' = somme_ecart_cell(summary_df)
    /\ rs_pc' = "summed"
    /\ UNCHANGED <<pivot_df, phase_dict, checked_boxes, phases_checked, validateVars, rafVars, pivotVars, mepVars, frameVars, flowVars, readVars, writeVars, outputVars, workbookVars, tabVars, equivVars>>


\* -------------------------------------------------------- create_pivot_table

\* A consumption row: its 'Ressource', its 'Projet' (NaN for an empty cell)
\* and its 'Charge JH' (null when the hours are missing).
ConsumptionRows ==
    {[Ressource |-> r, Projet |-> p, charge |-> c] :
        r \in Range(Resources) \cup {NaN},
        p \in Range(Projects) \cup {NaN},
        c \in {Null} \cup {Some(v) : v \in 1..2}}

PairLess(a, b) ==
    \/ IndexIn(Resources, a[1]) < IndexIn(Resources, b[1])
    \/ (a[1] = b[1] /\ IndexIn(Projects, a[2]) < IndexIn(Projects, b[2]))

RECURSIVE InsertPair(_, _)
InsertPair(sorted, x) ==
    IF sorted = <<>> THEN <<x>>
    ELSE IF PairLess(x, Head(sorted)) THEN <<x>> \o sorted
    ELSE <<Head(sorted)>> \o InsertPair(Tail(sorted), x)

RECURSIVE SortPairs(_)
SortPairs(list) ==
    IF list = <<>> THEN <<>> ELSE InsertPair(SortPairs(Tail(list)), Head(list))

\* Mutant: the first value of each group taken instead of the sum.
create_pivot_table_first(rows) ==
    LET keyed == SelectSeq(rows, LAMBDA row : row.Ressource # NaN /\ row.Projet # NaN)
        keys == SortPairs(DropDuplicates([i \in DOMAIN keyed |->
                                            <<keyed[i].Ressource, keyed[i].Projet>>]))
    IN [k \in DOMAIN keys |->
          LET of == SelectSeq(keyed, LAMBDA row : <<row.Ressource, row.Projet>> = keys[k])
          IN [Ressource |-> keys[k][1], Projet |-> keys[k][2],
              charge |-> IF of[1].charge = Null THEN Some(0) ELSE of[1].charge]]

\* df.pivot_table(values='Charge JH', index=['Ressource', 'Projet'],
\* aggfunc='sum').reset_index(): the rows are grouped by the two keys, rows
\* with a NaN key left out of every group; the groups come out sorted by
\* key; a group's value is the sum of its non-null workloads (0 when all
\* are null).
create_pivot_table(rows) ==
    LET keyed == SelectSeq(rows, LAMBDA row : row.Ressource # NaN /\ row.Projet # NaN)
        keys == SortPairs(DropDuplicates([i \in DOMAIN keyed |->
                                            <<keyed[i].Ressource, keyed[i].Projet>>]))
    IN [k \in DOMAIN keys |->
          LET of == SelectSeq(keyed, LAMBDA row : <<row.Ressource, row.Projet>> = keys[k])
          IN [Ressource |-> keys[k][1], Projet |-> keys[k][2],
              charge |-> Some(SumOfCells([i \in DOMAIN of |-> of[i].charge]))]]

PivotIdle ==
    /\ pt_pc = "idle"
    /\ charge_df = <<>>
    /\ pivot_result = <<>>

PivotInputs ==
    /\ pt_pc = "call"
    /\ charge_df \in SeqsUpTo(ConsumptionRows, MaxPivotRows)
    /\ pivot_result = <<>>

CreatePivotTable ==
    /\ pt_pc = "call"
    /\ pivot_result' = create_pivot_table(charge_df)
    /\ pt_pc' = "done"
    /\ UNCHANGED <<charge_df, validateVars, rafVars, summaryVars, mepVars, frameVars, flowVars, readVars, writeVars, outputVars, workbookVars, tabVars, equivVars>>


\* ------------------------------------------------------------ calendar dates

\* A 'Date de MEP' cell is <<year, month, day>> as written in the sheet, or
\* NaT for an empty cell; a parsed date is a record, or NaT.
NaT == <<>>

IsLeap(y) == (y % 4 = 0 /\ y % 100 # 0) \/ y % 400 = 0

DaysInMonth(y, m) ==
    IF m = 2 THEN (IF IsLeap(y) THEN 29 ELSE 28)
    ELSE IF m \in {4, 6, 9, 11} THEN 30 ELSE 31

\* pd.to_datetime(..., errors='coerce'): a cell that is no calendar date
\* becomes NaT.
to_datetime(cell) ==
    IF cell = NaT THEN NaT
    ELSE IF /\ cell[2] \in 1..12
            /\ cell[3] \in 1..DaysInMonth(cell[1], cell[2])
         THEN [year |-> cell[1], month |-> cell[2], day |-> cell[3]]
         ELSE NaT

RECURSIVE DaysBeforeMonth(_, _)
DaysBeforeMonth(y, m) ==
    IF m = 1 THEN 0 ELSE DaysBeforeMonth(y, m - 1) + DaysInMonth(y, m - 1)

DayOfYear(d) == DaysBeforeMonth(d.year, d.month) + d.day

\* Days from 0001-01-01 (day 1, a Monday) in the proleptic Gregorian
\* calendar, and the ISO weekday, Monday = 1 .. Sunday = 7.
Ordinal(d) ==
    LET y == d.year - 1
    IN 365 * y + (y \div 4) - (y \div 100) + (y \div 400) + DayOfYear(d)

IsoWeekday(d) == ((Ordinal(d) - 1) % 7) + 1

WeeksInYear(y) ==
    LET jan1 == IsoWeekday([year |-> y, month |-> 1, day |-> 1])
    IN IF jan1 = 4 \/ (jan1 = 3 /\ IsLeap(y)) THEN 53 ELSE 52

\* date.isocalendar()[1]
IsoWeek(d) ==
    LET w == (DayOfYear(d) - IsoWeekday(d) + 10) \div 7
    IN IF w < 1 THEN WeeksInYear(d.year - 1)
       ELSE IF w > WeeksInYear(d.year) THEN 1
       ELSE w

\* calendar.month_name[1..12], which is also strftime('%B') in the C locale.
month_name == <<"January", "February", "March", "April", "May", "June", "July",
                "August", "September", "October", "November", "December">>

\* ------------------------------------------------------ calculate_monthly_raf

DateCol == "Date de MEP"
RafCol == "RAF"

\* 2023-01-01 is a Sunday in ISO week 52 of 2022, 2023-01-02 the Monday of
\* week 1, 2023-03-01 and 2023-03-03 are in week 9 and 2023-03-06 in week
\* 10; 2023-02-30 is no date.
DateCells == {<<2023, 1, 1>>, <<2023, 1, 2>>, <<2023, 3, 1>>, <<2023, 3, 3>>,
              <<2023, 3, 6>>, <<2024, 1, 1>>, <<2023, 2, 30>>, NaT}
RafCells == {Null} \cup {Some(v) : v \in -1..1}

MepRow(d, r) == (DateCol :> d) @@ (RafCol :> r)

MepTables ==
    {[columns |-> cols, rows |-> rows] :
        cols \in SUBSET {DateCol, RafCol},
        rows \in SeqsUpTo({MepRow(d, r) : d \in DateCells, r \in RafCells}, MaxMepRows)}

\* The cells of an absent column do not exist: they are fixed to null.
WellFormedMepTable(t) ==
    \A i \in DOMAIN t.rows :
        /\ (DateCol \notin t.columns => t.rows[i][DateCol] = NaT)
        /\ (RafCol \notin t.columns => t.rows[i][RafCol] = Null)

\* Lines 73-86: the dates converted, the rows with a missing date or RAF
\* dropped, Year and Month extracted.
DatedRows(rows) ==
    LET converted == [i \in DOMAIN rows |->
                        [rows[i] EXCEPT ![DateCol] = to_datetime(rows[i][DateCol])]]
        kept == SelectSeq(converted, LAMBDA row : row[DateCol] # NaT /\ row[RafCol] # Null)
    IN [i \in DOMAIN kept |->
          [Year |-> kept[i][DateCol].year, Month |-> kept[i][DateCol].month,
           MonthName |-> month_name[kept[i][DateCol].month], RAF |-> kept[i][RafCol]]]

\* Mutant: the table ordered by month first, then by year.
YearMonthLessByMonth(a, b) == a[2] < b[2] \/ (a[2] = b[2] /\ a[1] < b[1])

YearMonthLess(a, b) == a[1] < b[1] \/ (a[1] = b[1] /\ a[2] < b[2])

RECURSIVE InsertYearMonth(_, _)
InsertYearMonth(sorted, x) ==
    IF sorted = <<>> THEN <<x>>
    ELSE IF YearMonthLess(x, Head(sorted)) THEN <<x>> \o sorted
    ELSE <<Head(sorted)>> \o InsertYearMonth(Tail(sorted), x)

RECURSIVE SortYearMonths(_)
SortYearMonths(list) ==
    IF list = <<>> THEN <<>> ELSE InsertYearMonth(SortYearMonths(Tail(list)), Head(list))

\* Line 89: groupby(['Year', 'Month', 'Month Name'])['RAF']: one group per
\* key, the keys sorted, each with the RAF cells of its rows.
MonthlyGroups(dated) ==
    LET keys == SortYearMonths(DropDuplicates([i \in DOMAIN dated |->
                                                 <<dated[i].Year, dated[i].Month>>]))
    IN [k \in DOMAIN keys |->
          LET of == SelectSeq(dated, LAMBDA row : <<row.Year, row.Month>> = keys[k])
          IN [Year |-> keys[k][1], Month |-> keys[k][2], MonthName |-> of[1].MonthName,
              cells |-> [i \in DOMAIN of |-> of[i].RAF]]]

\* Lines 89-95: .sum().reset_index(), 'RAF' renamed 'Total RAF', the rows
\* sorted by year and month (the order the groups already have).
MonthlySums(dated) ==
    LET groups == MonthlyGroups(dated)
    IN [k \in DOMAIN groups |->
          [Year |-> groups[k].Year, Month |-> groups[k].Month,
           MonthName |-> groups[k].MonthName, TotalRAF |-> SumOfCells(groups[k].cells)]]

\* Mutant: the months whose total is zero dropped from the table.
calculate_monthly_raf_nonzero(t) ==
    IF DateCol \notin t.columns \/ RafCol \notin t.columns THEN <<>>
    ELSE SelectSeq(MonthlySums(DatedRows(t.rows)), LAMBDA row : row.TotalRAF # 0)

\* Mutant: each month valued with its first RAF instead of the sum.
calculate_monthly_raf_first(t) ==
    IF DateCol \notin t.columns \/ RafCol \notin t.columns THEN <<>>
    ELSE LET groups == MonthlyGroups(DatedRows(t.rows))
         IN [k \in DOMAIN groups |->
               [Year |-> groups[k].Year, Month |-> groups[k].Month,
                MonthName |-> groups[k].MonthName, TotalRAF |-> groups[k].cells[1][1]]]

\* Mutant: the groups keyed by month alone, the years merged.
calculate_monthly_raf_by_month(t) ==
    IF DateCol \notin t.columns \/ RafCol \notin t.columns THEN <<>>
    ELSE LET dated == DatedRows(t.rows)
             first == IF dated = <<>> THEN 0 ELSE dated[1].Year
         IN MonthlySums([i \in DOMAIN dated |-> [dated[i] EXCEPT !.Year = first]])

\* The rows of the table returned (its columns are Year, Month, 'Month
\* Name', 'Total RAF'); no row when a column is missing.
calculate_monthly_raf(t) ==
    IF DateCol \notin t.columns \/ RafCol \notin t.columns THEN <<>>
    ELSE MonthlySums(DatedRows(t.rows))

MepIdle ==
    /\ m_pc = "idle"
    /\ sh_pc = "idle"
    /\ mep_df = EmptyTable
    /\ monthly_result = <<>>
    /\ raf_sheet = <<>>

MonthlyInputs ==
    /\ m_pc = "call"
    /\ sh_pc = "idle"
    /\ mep_df \in {t \in MepTables : WellFormedMepTable(t)}
    /\ monthly_result = <<>>
    /\ raf_sheet = <<>>

CalculateMonthlyRaf ==
    /\ m_pc = "call"
    /\ monthly_result' = calculate_monthly_raf(mep_df)
    /\ m_pc' = "done"
    /\ UNCHANGED <<mep_df, sh_pc, raf_sheet, validateVars, rafVars, summaryVars, pivotVars, frameVars, flowVars, readVars, writeVars, outputVars, workbookVars, tabVars, equivVars>>


\* ---------------------------------------------------- create_raf_summary_sheet

RECURSIVE MinOf(_)
MinOf(list) ==
    IF Len(list) = 1 THEN list[1]
    ELSE LET m == MinOf(Tail(list)) IN IF Head(list) < m THEN Head(list) ELSE m

RECURSIVE MaxOf(_)
MaxOf(list) ==
    IF Len(list) = 1 THEN list[1]
    ELSE LET m == MaxOf(Tail(list)) IN IF Head(list) > m THEN Head(list) ELSE m

\* The format {:02d} of a day of the month.
format_02d(n) == IF n < 10 THEN "0" \o ToString(n) ELSE ToString(n)

\* Mutant: the first and the last day met, not the smallest and the largest.
WeekLabelFirstLast(week_num, days) ==
    LET min_day == days[1]
        max_day == days[Len(days)]
        day_range == IF min_day = max_day
                     THEN "(" \o format_02d(min_day) \o ")"
                     ELSE "(" \o format_02d(min_day) \o " to " \o format_02d(max_day) \o ")"
    IN [week |-> week_num,
        days |-> IF min_day = max_day THEN <<min_day>> ELSE <<min_day, max_day>>,
        text |-> "Week " \o ToString(week_num) \o " " \o day_range]

\* Lines 130-141: the label f"Week {week_num} ({min:02d} to {max:02d})", or
\* f"Week {week_num} ({day:02d})" for a single day: its text, and the week
\* number and the days it is made of.
WeekLabel(week_num, days) ==
    LET min_day == MinOf(days)
        max_day == MaxOf(days)
        day_range == IF min_day = max_day
                     THEN "(" \o format_02d(min_day) \o ")"
                     ELSE "(" \o format_02d(min_day) \o " to " \o format_02d(max_day) \o ")"
    IN [week |-> week_num,
        days |-> IF min_day = max_day THEN <<min_day>> ELSE <<min_day, max_day>>,
        text |-> "Week " \o ToString(week_num) \o " " \o day_range]

\* The characters of a label that decide its place among the labels of one
\* month, which differ in their week number: the digits of the number (as
\* 1..10) and the space after them (0, below every digit).
LabelKey(label) ==
    (IF label.week < 10 THEN <<label.week + 1>>
     ELSE <<(label.week \div 10) + 1, (label.week % 10) + 1>>) \o <<0>>

\* String comparison, character by character.
RECURSIVE SeqLess(_, _)
SeqLess(a, b) ==
    IF b = <<>> THEN FALSE
    ELSE IF a = <<>> THEN TRUE
    ELSE IF Head(a) # Head(b) THEN Head(a) < Head(b)
    ELSE SeqLess(Tail(a), Tail(b))

RECURSIVE InsertWeek(_, _)
InsertWeek(sorted, x) ==
    IF sorted = <<>> THEN <<x>>
    ELSE IF SeqLess(LabelKey(x.label), LabelKey(Head(sorted).label)) THEN <<x>> \o sorted
    ELSE <<Head(sorted)>> \o InsertWeek(Tail(sorted), x)

\* sorted(month_data['weeks']): the (label, value) pairs by label.
RECURSIVE SortWeeks(_)
SortWeeks(list) ==
    IF list = <<>> THEN <<>> ELSE InsertWeek(SortWeeks(Tail(list)), Head(list))

RECURSIVE InsertInt(_, _)
InsertInt(sorted, x) ==
    IF sorted = <<>> THEN <<x>>
    ELSE IF x < Head(sorted) THEN <<x>> \o sorted
    ELSE <<Head(sorted)>> \o InsertInt(Tail(sorted), x)

RECURSIVE SortInts(_)
SortInts(list) ==
    IF list = <<>> THEN <<>> ELSE InsertInt(SortInts(Tail(list)), Head(list))

RafSum(rows) == SumOfCells([i \in DOMAIN rows |-> rows[i][RafCol]])

\* Lines 108-143: the weeks of one month's rows, in the order the weeks
\* are first met, each with its days and the sum of its non-null RAF; only
\* the weeks whose sum is above zero are listed.
WeeksData(month_data) ==
    LET week_nums == DropDuplicates([i \in DOMAIN month_data |->
                                       IsoWeek(month_data[i][DateCol])])
        week_groups == [k \in DOMAIN week_nums |->
            LET of == SelectSeq(month_data,
                                LAMBDA row : IsoWeek(row[DateCol]) = week_nums[k])
            IN [week_num |-> week_nums[k],
                days |-> [i \in DOMAIN of |-> of[i][DateCol].day],
                raf |-> RafSum(of)]]
        listed == SelectSeq(week_groups, LAMBDA g : g.raf > 0)
    IN [k \in DOMAIN listed |->
          [label |-> WeekLabel(listed[k].week_num, listed[k].days), raf |-> listed[k].raf]]

\* Lines 97-150: months_in_year for one year's rows, as a list in calendar
\* order: a month is entered when its total RAF is not zero (when
\* skip_zero) and it lists at least one week.
MonthsInYear(year_data, skip_zero) ==
    LET months == SortInts(DropDuplicates([i \in DOMAIN year_data |->
                                             year_data[i][DateCol].month]))
        entry(m) ==
            LET month_data == SelectSeq(year_data, LAMBDA row : row[DateCol].month = m)
                month_raf == RafSum(month_data)
                weeks_data == WeeksData(month_data)
            IN [month |-> m, total_raf |-> month_raf, weeks |-> weeks_data,
                entered |-> ~(skip_zero /\ month_raf = 0) /\ weeks_data # <<>>]
        entries == [k \in DOMAIN months |-> entry(months[k])]
    IN SelectSeq(entries, LAMBDA e : e.entered)

\* Lines 217-253: a month row, then its week rows sorted by label, a week
\* of value zero skipped.
RECURSIVE MonthRows(_)
MonthRows(months) ==
    IF months = <<>> THEN <<>>
    ELSE LET month_data == Head(months)
             weeks == SelectSeq(SortWeeks(month_data.weeks), LAMBDA w : w.raf # 0)
         IN <<[kind |-> "month", month |-> month_name[month_data.month],
               value |-> month_data.total_raf]>>
            \o [k \in DOMAIN weeks |->
                  [kind |-> "week", label |-> weeks[k].label, value |-> weeks[k].raf]]
            \o MonthRows(Tail(months))

\* Lines 91-154 and 203-253: per year in ascending order, when the year has
\* an entered month, a year row and the rows of its months.
RECURSIVE YearRows(_, _, _)
YearRows(rows, years, skip_zero) ==
    IF years = <<>> THEN <<>>
    ELSE LET year == Head(years)
             year_data == SelectSeq(rows, LAMBDA row :
                              row[DateCol] # NaT /\ row[DateCol].year = year)
             months_in_year == MonthsInYear(year_data, skip_zero)
         IN (IF months_in_year = <<>> THEN <<>>
             ELSE <<[kind |-> "year", year |-> year]>> \o MonthRows(months_in_year))
            \o YearRows(rows, Tail(years), skip_zero)

SheetRows(t, skip_zero) ==
    LET rows == [i \in DOMAIN t.rows |->
                   [t.rows[i] EXCEPT ![DateCol] = to_datetime(t.rows[i][DateCol])]]
        dated == SelectSeq(rows, LAMBDA row : row[DateCol] # NaT)
        years == SortInts(DropDuplicates([i \in DOMAIN dated |-> dated[i][DateCol].year]))
    IN YearRows(rows, years, skip_zero)

\* Mutant: the test 'if month_raf == 0: continue' left out.
create_raf_summary_sheet_keep_zero(t) == SheetRows(t, FALSE)

\* The data rows of the 'RAF Summary' sheet, below its title and header.
create_raf_summary_sheet(t) == SheetRows(t, TRUE)

\* The sheet is written from a table that has 'Date de MEP' and 'RAF'.
SheetInputs ==
    /\ sh_pc = "call"
    /\ m_pc = "idle"
    /\ mep_df \in {t \in MepTables : t.columns = {DateCol, RafCol}}
    /\ monthly_result = <<>>
    /\ raf_sheet = <<>>

CreateRafSummarySheet ==
    /\ sh_pc = "call"
    /\ raf_sheet' = create_raf_summary_sheet(mep_df)
    /\ sh_pc' = "done"
    /\ UNCHANGED <<mep_df, m_pc, monthly_result, validateVars, rafVars, summaryVars, pivotVars, frameVars, flowVars, readVars, writeVars, outputVars, workbookVars, tabVars, equivVars>>

\* ------------------------------------------------- the caller's table (copy)

\* The tables live in memory as objects; a variable of the program holds a
\* reference, the position of its object in heap.  An object is a table
\* with the set of its columns whose dtype is datetime64.
AsObject(t) == [columns |-> t.columns, rows |-> t.rows, datetime64 |-> {}]

\* Mutant: no copy is taken, the function works on the caller's object.
df_copy_alias(h, ref) == [heap |-> h, ref |-> ref]

\* df.copy(): a new object with the contents of the one referred to.
df_copy(h, ref) == [heap |-> Append(h, h[ref]), ref |-> Len(h) + 1]

\* obj['Date de MEP'] = pd.to_datetime(obj['Date de MEP'], errors='coerce'):
\* the column of the object replaced in place.
SetDatetime(obj) ==
    [columns |-> obj.columns,
     rows |-> [i \in DOMAIN obj.rows |->
                 [obj.rows[i] EXCEPT ![DateCol] = to_datetime(obj.rows[i][DateCol])]],
     datetime64 |-> obj.datetime64 \cup {DateCol}]

\* calculate_raf (RAFProcessor lines 24-38, DeploymentProcessor lines
\* 39-53): the copy gets the 'RAF' column and is returned.
call_calculate_raf(h, df) ==
    LET c == df_copy(h, df)
        result_df_ref == c.ref
        done == calculate_raf(c.heap[result_df_ref])
    IN [heap |-> [c.heap EXCEPT ![result_df_ref] =
                     [columns |-> done.columns, rows |-> done.rows,
                      datetime64 |-> c.heap[result_df_ref].datetime64]],
        ref |-> result_df_ref]

\* calculate_monthly_raf: the copy has its dates converted in place (lines
\* 73-76); dropna gives a new object, which gets Month, Year and 'Month
\* Name' (lines 79-86); the grouped table is a third object, returned.  A
\* missing column returns a new empty table (lines 69-70).
call_calculate_monthly_raf(h, df) ==
    LET c == df_copy(h, df)
        monthly_df == c.ref
        t == c.heap[monthly_df]
    IN IF DateCol \notin t.columns \/ RafCol \notin t.columns
       THEN [heap |-> Append(c.heap, [columns |-> {"Month", "Year", "Month Name", "Total RAF"},
                                      rows |-> <<>>, datetime64 |-> {}]),
             ref |-> Len(c.heap) + 1]
       ELSE LET h1 == [c.heap EXCEPT ![monthly_df] = SetDatetime(t)]
                kept == SelectSeq(h1[monthly_df].rows,
                                  LAMBDA row : row[DateCol] # NaT /\ row[RafCol] # Null)
                dropped == [columns |-> t.columns \cup {"Month", "Year", "Month Name"},
                            rows |-> [i \in DOMAIN kept |->
                                        AddColumns(kept[i],
                                            ("Month" :> kept[i][DateCol].month)
                                            @@ ("Year" :> kept[i][DateCol].year)
                                            @@ ("Month Name" :> month_name[kept[i][DateCol].month]))],
                            datetime64 |-> {DateCol}]
                result == [columns |-> {"Year", "Month", "Month Name", "Total RAF"},
                           rows |-> calculate_monthly_raf(t), datetime64 |-> {}]
            IN [heap |-> h1 \o <<dropped, result>>, ref |-> Len(h1) + 2]

\* create_raf_summary_sheet: the copy has its dates converted in place
\* (lines 88-89); the sheet written is the object returned here.
call_create_raf_summary_sheet(h, df) ==
    LET c == df_copy(h, df)
        deployments_df_ref == c.ref
        t == c.heap[deployments_df_ref]
        h1 == [c.heap EXCEPT ![deployments_df_ref] = SetDatetime(t)]
        sheet == [columns |-> {"Period", "RAF Value"},
                  rows |-> create_raf_summary_sheet(t), datetime64 |-> {}]
    IN [heap |-> Append(h1, sheet), ref |-> Len(h1) + 1]

FrameCalls == {"RAFProcessor.calculate_raf", "DeploymentProcessor.calculate_raf",
               "DeploymentProcessor.calculate_monthly_raf",
               "RAFProcessor.create_raf_summary_sheet"}

\* The tables a function is called on.
FrameTables(call) ==
    IF call \in {"RAFProcessor.calculate_raf", "DeploymentProcessor.calculate_raf"}
    THEN {t \in RafTables : WellFormedRafTable(t)}
    ELSE IF call = "DeploymentProcessor.calculate_monthly_raf"
    THEN {t \in MepTables : WellFormedMepTable(t)}
    ELSE {t \in MepTables : t.columns = {DateCol, RafCol}}

FrameIdle ==
    /\ f_pc = "idle"
    /\ f_call = ""
    /\ heap = <<>>
    /\ caller_df = 0
    /\ caller_before = EmptyTable
    /\ returned = 0

FrameInputs ==
    /\ f_pc = "call"
    /\ f_call \in FrameCalls
    /\ \E t \in FrameTables(f_call) :
         /\ heap = <<AsObject(t)>>
         /\ caller_before = AsObject(t)
    /\ caller_df = 1
    /\ returned = 0

FrameReturn(r) ==
    /\ heap' = r.heap
    /\ returned' = r.ref
    /\ f_pc' = "done"
    /\ UNCHANGED <<f_call, caller_df, caller_before, flowVars, readVars, writeVars, outputVars, workbookVars, tabVars, equivVars>>

CallRafProcessorCalculateRaf ==
    /\ f_pc = "call" /\ f_call = "RAFProcessor.calculate_raf"
    /\ FrameReturn(call_calculate_raf(heap, caller_df))
    /\ UNCHANGED <<validateVars, rafVars, summaryVars, pivotVars, mepVars, flowVars, readVars, writeVars, outputVars, workbookVars, tabVars, equivVars>>

CallDeploymentProcessorCalculateRaf ==
    /\ f_pc = "call" /\ f_call = "DeploymentProcessor.calculate_raf"
    /\ FrameReturn(call_calculate_raf(heap, caller_df))
    /\ UNCHANGED <<validateVars, rafVars, summaryVars, pivotVars, mepVars, flowVars, readVars, writeVars, outputVars, workbookVars, tabVars, equivVars>>

CallCalculateMonthlyRaf ==
    /\ f_pc = "call" /\ f_call = "DeploymentProcessor.calculate_monthly_raf"
    /\ FrameReturn(call_calculate_monthly_raf(heap, caller_df))
    /\ UNCHANGED <<validateVars, rafVars, summaryVars, pivotVars, mepVars, flowVars, readVars, writeVars, outputVars, workbookVars, tabVars, equivVars>>

CallCreateRafSummarySheet ==
    /\ f_pc = "call" /\ f_call = "RAFProcessor.create_raf_summary_sheet"
    /\ FrameReturn(call_create_raf_summary_sheet(heap, caller_df))
    /\ UNCHANGED <<validateVars, rafVars, summaryVars, pivotVars, mepVars, flowVars, readVars, writeVars, outputVars, workbookVars, tabVars, equivVars>>

\* ----------------------------------------------------------------- the flows

\* The two GUI workers and the two CLI commands.  A flow reads its input,
\* validates the columns, and on success runs its steps in order; every
\* statement is inside one try block whose handler reports the error.
ResourceWorker == "ResourceSummaryWorker.run"
RafWorker == "RAFWorker.run"
ResourceCli == "generate_resource_summary"
RafCli == "add_raf_to_deployments"
Flows == {ResourceWorker, RafWorker, ResourceCli, RafCli}
GuiFlows == {ResourceWorker, RafWorker}

\* required_columns of each flow.
FlowRequired(f) ==
    IF f \in {ResourceWorker, ResourceCli}
    THEN <<"Ressource", "Projet", "Soumise (h)">>
    ELSE <<"Niveau de connexion", "Phase du projet", "Date de MEP">>

\* The column names an input table of the flow is drawn from.
FlowColumnNames(f) ==
    IF f \in {ResourceWorker, ResourceCli}
    THEN {"Ressource", "Resource", "Projet", "Soumise (h)"}
    ELSE {"Niveau de connexion", "Phase du projet", "Date de MEP"}

\* The steps after validation, in program order.
FlowSteps(f) ==
    IF f = ResourceWorker
    THEN <<"rename", "create_connection_dict", "calculate_charge_jh", "create_pivot_table",
           "format_resource_summary", "filter", "write_multiple_sheets", "add_graphs_sheet">>
    ELSE IF f = ResourceCli
    THEN <<"rename", "create_connection_dict", "calculate_charge_jh", "create_pivot_table",
           "format_resource_summary", "write_excel">>
    ELSE <<"calculate_raf", "copy2", "load_workbook", "add_raf_to_workbook",
           "create_raf_summary_sheet", "save">>

\* The steps that create or modify the output file.
WritingSteps == {"write_multiple_sheets", "write_excel", "copy2", "save"}

\* if 'Ressource' not in df.columns and 'Resource' in df.columns:
\*     df.rename(columns={'Resource': 'Ressource'}, inplace=True)
rename_resource(columns) ==
    IF "Ressource" \notin columns /\ "Resource" \in columns
    THEN (columns \ {"Resource"}) \cup {"Ressource"}
    ELSE columns

\* DataProcessor.validate_dataframe(df, required_columns): the pair (no
\* required name is missing, the required names that are not columns).
DataProcessor_validate_dataframe(columns, required) ==
    LET missing == SelectSeq(required, LAMBDA c : c \notin columns)
    IN <<missing = <<>>, missing>>

\* What a flow reports: a GUI worker emits finished_signal(success,
\* message, output_file), a CLI command prints the message.
MissingMessage(missing) == [kind |-> "missing columns", columns |-> missing]
ErrorMessage == [kind |-> "error", columns |-> <<>>]
SuccessMessage == [kind |-> "success", columns |-> <<>>]
Signal(success, message, output) ==
    [success |-> success, message |-> message, output |-> output]

\* The steps a worker announces with progress_update before running them,
\* and the number of input files it reads, each announced as well.
ProgressSteps(f) ==
    IF f = ResourceWorker
    THEN {"create_connection_dict", "calculate_charge_jh", "create_pivot_table",
          "format_resource_summary", "write_multiple_sheets"}
    ELSE IF f = RafWorker
    THEN {"calculate_raf", "copy2", "load_workbook", "create_raf_summary_sheet", "save"}
    ELSE {}
FilesRead(f) == IF f \in {ResourceWorker, ResourceCli} THEN 2 ELSE 1

FlowIdle ==
    /\ fl_pc = "idle"
    /\ fl_step = 0
    /\ flow = ""
    /\ has_figures = FALSE
    /\ effects = <<>>
    /\ finished_signal = <<>>
    /\ printed = <<>>
    /\ output_file = "absent"
    /\ emitted = <<>>
    /\ fl_raised = ""

\* A flow starts with the table it will read (its columns), an output path
\* that holds no file or an older one, and nothing reported.
FlowInputs ==
    /\ fl_pc = "read"
    /\ fl_step = 0
    /\ flow \in Flows
    /\ has_figures \in (IF flow = ResourceWorker THEN BOOLEAN ELSE {FALSE})
    /\ df_columns \in SUBSET FlowColumnNames(flow)
    /\ required_columns = <<>>
    /\ is_valid = FALSE
    /\ missing_columns = <<>>
    /\ v_pc = "idle"
    /\ effects = <<>>
    /\ finished_signal = <<>>
    /\ printed = <<>>
    /\ output_file \in {"absent", "old"}
    /\ emitted = <<>>
    /\ fl_raised = ""

\* Reporting: the worker emits, the command prints.
Report(success, message, output) ==
    IF flow \in GuiFlows
    THEN /\ finished_signal' = Append(finished_signal, Signal(success, message, output))
         /\ UNCHANGED printed
    ELSE /\ printed' = Append(printed, message)
         /\ UNCHANGED finished_signal

\* The signals of a worker in the order they are emitted: n times
\* progress_update, then finished_signal when the flow reports.  A command
\* has no signals.
Emit(n, finished) ==
    emitted' = IF flow \in GuiFlows
               THEN emitted \o [i \in 1..n |-> "progress_update"]
                            \o (IF finished THEN <<"finished_signal">> ELSE <<>>)
               ELSE emitted

\* ExcelHandler.read_excel of the input files succeeded.
FlowRead ==
    /\ fl_pc = "read"
    /\ fl_pc' = "validate"
    /\ Emit(FilesRead(flow), FALSE)
    /\ UNCHANGED <<fl_step, flow, has_figures, effects, finished_signal, printed, output_file, fl_raised>>
    /\ UNCHANGED <<validateVars, rafVars, summaryVars, pivotVars, mepVars, frameVars, readVars, writeVars, outputVars, workbookVars, tabVars, equivVars>>

\* Mutant: the 'return' after the report of the missing columns left out.
FlowValidateNoReturn ==
    /\ fl_pc = "validate"
    /\ required_columns' = FlowRequired(flow)
    /\ LET r == DataProcessor_validate_dataframe(df_columns, FlowRequired(flow))
       IN /\ is_valid' = r[1]
          /\ missing_columns' = r[2]
          /\ fl_pc' = "step"
          /\ fl_step' = 1
          /\ IF r[1]
             THEN UNCHANGED <<finished_signal, printed>> /\ Emit(1, FALSE)
             ELSE Report(FALSE, MissingMessage(r[2]), "") /\ Emit(1, TRUE)
    /\ UNCHANGED <<flow, has_figures, effects, output_file, v_pc, df_columns, fl_raised>>
    /\ UNCHANGED <<rafVars, summaryVars, pivotVars, mepVars, frameVars, readVars, writeVars, outputVars, workbookVars, tabVars, equivVars>>

\* is_valid, missing_columns = validate_dataframe(df, required_columns);
\* if not is_valid: report the missing columns and return.
FlowValidate ==
    /\ fl_pc = "validate"
    /\ required_columns' = FlowRequired(flow)
    /\ LET r == DataProcessor_validate_dataframe(df_columns, FlowRequired(flow))
       IN /\ is_valid' = r[1]
          /\ missing_columns' = r[2]
          /\ IF r[1]
             THEN /\ fl_pc' = "step"
                  /\ fl_step' = 1
                  /\ Emit(1, FALSE)
                  /\ UNCHANGED <<finished_signal, printed>>
             ELSE /\ fl_pc' = "done"
                  /\ UNCHANGED fl_step
                  /\ Emit(1, TRUE)
                  /\ Report(FALSE, MissingMessage(r[2]), "")
    /\ UNCHANGED <<flow, has_figures, effects, output_file, v_pc, df_columns, fl_raised>>
    /\ UNCHANGED <<rafVars, summaryVars, pivotVars, mepVars, frameVars, readVars, writeVars, outputVars, workbookVars, tabVars, equivVars>>

\* The next step of the flow.  'rename' renames the resource column when
\* needed; add_graphs_sheet is called only when there is a figure, and the
\* call passes ecart_sum, a keyword the function does not take, so it
\* raises TypeError and the handler reports the error; every other step is
\* recorded, a writing step leaving the output file written.
FlowStep ==
    /\ fl_pc = "step"
    /\ fl_step <= Len(FlowSteps(flow))
    /\ LET step == FlowSteps(flow)[fl_step]
       IN IF step = "add_graphs_sheet"
          THEN /\ IF has_figures
                  THEN /\ fl_pc' = "done"
                       /\ fl_raised' = "TypeError"
                       /\ UNCHANGED fl_step
                       /\ Emit(0, TRUE)
                       /\ Report(FALSE, ErrorMessage, "")
                  ELSE /\ fl_step' = fl_step + 1
                       /\ Emit(0, FALSE)
                       /\ UNCHANGED <<fl_pc, finished_signal, printed, fl_raised>>
               /\ UNCHANGED <<effects, output_file, df_columns>>
          ELSE /\ fl_step' = fl_step + 1
               /\ effects' = Append(effects, step)
               /\ df_columns' = IF step = "rename" THEN rename_resource(df_columns)
                                ELSE df_columns
               /\ output_file' = IF step \in WritingSteps THEN "written" ELSE output_file
               /\ Emit(IF step \in ProgressSteps(flow) THEN 1 ELSE 0, FALSE)
               /\ UNCHANGED <<fl_pc, finished_signal, printed, fl_raised>>
    /\ UNCHANGED <<flow, has_figures, v_pc, required_columns, is_valid, missing_columns>>
    /\ UNCHANGED <<rafVars, summaryVars, pivotVars, mepVars, frameVars, readVars, writeVars, outputVars, workbookVars, tabVars, equivVars>>

\* Mutant: no handler; the exception leaves run and nothing is emitted.
FlowRaiseEscapes ==
    /\ \/ fl_pc = "read"
       \/ fl_pc = "step" /\ fl_step <= Len(FlowSteps(flow))
    /\ fl_pc' = "escaped"
    /\ fl_raised' = "Exception"
    /\ UNCHANGED <<fl_step, flow, has_figures, effects, output_file, finished_signal, printed, emitted>>
    /\ UNCHANGED <<validateVars, rafVars, summaryVars, pivotVars, mepVars, frameVars, readVars, writeVars, outputVars, workbookVars, tabVars, equivVars>>

\* A statement of the try block raises (a file that cannot be read or
\* written, a column that is not there), after the progress_update that
\* announces it: the handler reports the error.
FlowRaise ==
    /\ \/ /\ fl_pc = "read"
          /\ \E n \in 1..FilesRead(flow) : Emit(n, TRUE)
       \/ /\ fl_pc = "step" /\ fl_step <= Len(FlowSteps(flow))
          /\ Emit(IF FlowSteps(flow)[fl_step] \in ProgressSteps(flow) THEN 1 ELSE 0, TRUE)
    /\ fl_pc' = "done"
    /\ fl_raised' = "Exception"
    /\ Report(FALSE, ErrorMessage, "")
    /\ UNCHANGED <<fl_step, flow, has_figures, effects, output_file>>
    /\ UNCHANGED <<validateVars, rafVars, summaryVars, pivotVars, mepVars, frameVars, readVars, writeVars, outputVars, workbookVars, tabVars, equivVars>>

\* After the last step the flow reports success with the output file.
FlowFinish ==
    /\ fl_pc = "step"
    /\ fl_step > Len(FlowSteps(flow))
    /\ fl_pc' = "done"
    /\ Emit(0, TRUE)
    /\ Report(TRUE, SuccessMessage, "output_file")
    /\ UNCHANGED <<fl_step, flow, has_figures, effects, output_file, fl_raised>>
    /\ UNCHANGED <<validateVars, rafVars, summaryVars, pivotVars, mepVars, frameVars, readVars, writeVars, outputVars, workbookVars, tabVars, equivVars>>

\* ------------------------------------------------------------------ read_excel

\* The file system is a function from the paths that exist to their
\* workbooks; a workbook is the list of its sheets' tables.
Paths == {"file.xlsx", "deployments.xlsx", "not_a_file.xlsx"}
SheetA == [columns |-> {"a"}, rows |-> <<>>]
SheetAB == [columns |-> {"a", "b"}, rows |-> <<>>]
Workbooks == {<<SheetA>>, <<SheetAB, SheetA>>}
FileSystems == UNION {[S -> Workbooks] : S \in SUBSET Paths}

\* os.path.exists(file_path)
path_exists(fs, path) == path \in DOMAIN fs

\* pd.read_excel(file_path): the table of the first sheet.
pd_read_excel(fs, path) == Head(fs[path])

\* Mutant: a path that does not exist gives an empty table instead of
\* the exception.
read_excel_empty_on_missing(fs, path) ==
    IF ~path_exists(fs, path)
    THEN [raised |-> "", reads |-> <<>>, df |-> EmptyTable]
    ELSE [raised |-> "", reads |-> <<path>>, df |-> pd_read_excel(fs, path)]

\* ExcelHandler.read_excel: what is raised, the paths handed to pandas and
\* the table returned (none when it raises).
read_excel(fs, path) ==
    IF ~path_exists(fs, path)
    THEN [raised |-> "FileNotFoundError", reads |-> <<>>, df |-> EmptyTable]
    ELSE [raised |-> "", reads |-> <<path>>, df |-> pd_read_excel(fs, path)]

ReadIdle ==
    /\ rd_pc = "idle"
    /\ file_system = <<>>
    /\ file_path = ""
    /\ rd_reads = <<>>
    /\ rd_raised = ""
    /\ rd_df = EmptyTable

ReadInputs ==
    /\ rd_pc = "call"
    /\ file_system \in FileSystems
    /\ file_path \in Paths
    /\ rd_reads = <<>>
    /\ rd_raised = ""
    /\ rd_df = EmptyTable

ReadExcel ==
    /\ rd_pc = "call"
    /\ LET r == read_excel(file_system, file_path)
       IN /\ rd_raised' = r.raised
          /\ rd_reads' = r.reads
          /\ rd_df' = r.df
    /\ rd_pc' = "done"
    /\ UNCHANGED <<file_system, file_path, writeVars, outputVars>>
    /\ UNCHANGED <<validateVars, rafVars, summaryVars, pivotVars, mepVars, frameVars, flowVars, writeVars, outputVars, workbookVars, tabVars, equivVars>>

\* --------------------------------------- write_excel, write_multiple_sheets

\* A table to be written has its columns in order; a row gives a cell per
\* column.  A cell is a number, a text, or empty (None, or NaN, which
\* to_excel writes as an empty cell).
Num(n) == [t |-> "num", v |-> n]
Str(s) == [t |-> "str", s |-> s]
Empty == [t |-> "none"]

NameCol == "Resource/ PROJET"
EcartCol == "Ecart"

\* The first four characters of the texts used as names: "    P1" is an
\* indented project, "R1" and "  P1" (two spaces) are not.
StartsWithFourSpaces(text) == text \in {"    P1", "    P2"}

\* cell_value = str(row[0].value) if row[0].value else "", then
\* cell_value.startswith('    '): a number never starts with a space, an
\* empty cell gives "".
FirstCellIndented(cell) ==
    IF cell.t = "str" THEN StartsWithFourSpaces(cell.s) ELSE FALSE

\* The index of the first column named 'Ecart', 0 for None.
ecart_col_idx(columns) == IndexIn(columns, EcartCol)

GREEN == "C6E0B4"
RED == "F8CBAD"

\* Lines 118-132 (and 167-177): the fill of the row's Ecart cell, "" for
\* none.  A resource row is skipped; a cell is filled when its value is an
\* int or a float above or below zero.
EcartFill(columns, row, indented) ==
    LET idx == ecart_col_idx(columns)
        ecart_cell == row[columns[idx]]
    IN IF idx = 0 \/ ~indented THEN ""
       ELSE IF ecart_cell.t = "num" /\ ecart_cell.v > 0 THEN GREEN
       ELSE IF ecart_cell.t = "num" /\ ecart_cell.v < 0 THEN RED
       ELSE ""

\* Mutant: the Ecart cell coloured on every row, resource rows included.
StyleRowAllRows(columns, row) ==
    LET indented == FirstCellIndented(row[columns[1]])
    IN [values |-> row,
        bold |-> IF indented THEN {} ELSE Range(columns),
        ecart_fill |-> EcartFill(columns, row, TRUE)]

\* Mutant: every data row set bold.
StyleRowAllBold(columns, row) ==
    LET indented == FirstCellIndented(row[columns[1]])
    IN [values |-> row,
        bold |-> Range(columns),
        ecart_fill |-> EcartFill(columns, row, indented)]

\* Lines 110-132 (and 161-177) for one data row: the columns whose cells
\* are set bold (all of them on a row whose first cell is not indented)
\* and the fill of the Ecart cell.
StyleRow(columns, row) ==
    LET indented == FirstCellIndented(row[columns[1]])
    IN [values |-> row,
        bold |-> IF indented THEN {} ELSE Range(columns),
        ecart_fill |-> EcartFill(columns, row, indented)]

\* df.to_excel(writer, index=False, sheet_name=...) and the formatting
\* loop over the data rows: the header line is row 1 and the loop starts
\* at row 2, so it sets no font and no fill on the header line.
WriteSheet(sheet_name, df) ==
    [title |-> sheet_name,
     header |-> [values |-> df.columns, bold |-> {}, ecart_fill |-> ""],
     rows |-> [i \in DOMAIN df.rows |-> StyleRow(df.columns, df.rows[i])]]

write_excel(df, sheet_name) == <<WriteSheet(sheet_name, df)>>

\* dfs_dict as the list of its (sheet_name, df) items, in dict order.
write_multiple_sheets(dfs_dict) ==
    [k \in DOMAIN dfs_dict |-> WriteSheet(dfs_dict[k][1], dfs_dict[k][2])]

\* The tables written in the model: a name column and an 'Ecart' column in
\* either order, or no 'Ecart' column.
SheetColumnOrders == {<<NameCol, EcartCol>>, <<EcartCol, NameCol>>, <<NameCol>>}
NameCells == {Str("R1"), Str("    P1"), Str("  P1"), Empty}
EcartCells == {Empty, Num(-1), Num(0), Num(1), Str("n/a")}
SheetRowsOver(columns) ==
    IF EcartCol \in Range(columns)
    THEN {(NameCol :> n) @@ (EcartCol :> e) : n \in NameCells, e \in EcartCells}
    ELSE {(NameCol :> n) : n \in NameCells}
SheetTables ==
    UNION {{[columns |-> cols, rows |-> rows] :
               rows \in SeqsUpTo(SheetRowsOver(cols), MaxSheetRows)} :
           cols \in SheetColumnOrders}

NoTable == [columns |-> <<>>, rows |-> <<>>]

WriteIdle ==
    /\ w_pc = "idle"
    /\ w_call = ""
    /\ w_df = NoTable
    /\ workbook = <<>>

WriteInputs ==
    /\ w_pc = "call"
    /\ w_call \in {"write_excel", "write_multiple_sheets"}
    /\ w_df \in SheetTables
    /\ workbook = <<>>

WriteExcel ==
    /\ w_pc = "call" /\ w_call = "write_excel"
    /\ workbook' = write_excel(w_df, "Sheet1")
    /\ w_pc' = "done"
    /\ UNCHANGED <<w_call, w_df, outputVars>>
    /\ UNCHANGED <<validateVars, rafVars, summaryVars, pivotVars, mepVars, frameVars, flowVars, readVars, outputVars, workbookVars, tabVars, equivVars>>

WriteMultipleSheets ==
    /\ w_pc = "call" /\ w_call = "write_multiple_sheets"
    /\ workbook' = write_multiple_sheets(<<<<"Sheet1", w_df>>>>)
    /\ w_pc' = "done"
    /\ UNCHANGED <<w_call, w_df, outputVars>>
    /\ UNCHANGED <<validateVars, rafVars, summaryVars, pivotVars, mepVars, frameVars, flowVars, readVars, outputVars, workbookVars, tabVars, equivVars>>

\* ------------------------------- resource summary: 'somme ecart' and High CA

MontantCol == "Montant total (Contrat) (Commande)"
DureeCol == "Durée"
SommeEcartCol == "somme ecart"

\* Series.sum(): the numbers added up, the empty cells skipped.
SumOfColumn(rows, col) ==
    SumSeq([i \in DOMAIN rows |-> IF rows[i][col].t = "num" THEN rows[i][col].v ELSE 0])

\* Mutant: the sum written on every row.
set_somme_ecart_every_row(df) ==
    LET total == Num(SumOfColumn(df.rows, EcartCol))
    IN [columns |-> Append(df.columns, SommeEcartCol),
        rows |-> [i \in DOMAIN df.rows |-> AddColumns(df.rows[i], (SommeEcartCol :> total))]]

\* Line 147, result_df.loc[0, 'somme ecart'] = result_df['Ecart'].sum():
\* the new column is empty except on the row labelled 0, the first row
\* (the index is 0..n-1 after the merge of line 138); on a table without
\* rows the assignment adds the row, its other cells empty.
set_somme_ecart(df) ==
    LET total == Num(SumOfColumn(df.rows, EcartCol))
        columns == Append(df.columns, SommeEcartCol)
    IN [columns |-> columns,
        rows |-> IF df.rows = <<>>
                 THEN <<[c \in Range(columns) |-> IF c = SommeEcartCol THEN total ELSE Empty]>>
                 ELSE [i \in DOMAIN df.rows |->
                         AddColumns(df.rows[i],
                                    (SommeEcartCol :> IF i = 1 THEN total ELSE Empty))]]

\* result_df.drop(columns=self.columns)
drop_columns(df, columns) ==
    [columns |-> SelectSeq(df.columns, LAMBDA c : c \notin Range(columns)),
     rows |-> [i \in DOMAIN df.rows |->
                 [c \in (DOMAIN df.rows[i]) \ Range(columns) |-> df.rows[i][c]]]]

\* Mutant: the rows whose amount is 3000 kept too.
high_ca_at_least(df) ==
    IF MontantCol \in Range(df.columns)
    THEN [columns |-> df.columns,
          rows |-> SelectSeq(df.rows, LAMBDA row :
                       row[MontantCol].t = "num" /\ row[MontantCol].v >= 3000)]
    ELSE [columns |-> df.columns, rows |-> <<>>]

\* Lines 155-158: the rows whose amount is above 3000 (a comparison with
\* NaN is false), or no row when the table has no amount column.
high_ca(df) ==
    IF MontantCol \in Range(df.columns)
    THEN [columns |-> df.columns,
          rows |-> SelectSeq(df.rows, LAMBDA row :
                       row[MontantCol].t = "num" /\ row[MontantCol].v > 3000)]
    ELSE [columns |-> df.columns, rows |-> <<>>]

\* result_df as line 144 leaves it: resource rows and indented project
\* rows with their Ecart and duration, and the contract amount when the
\* formatted table has that column.
OutColumnLists == {<<NameCol, EcartCol, DureeCol>>, <<NameCol, EcartCol, DureeCol, MontantCol>>}
OutNames == {Str("R1"), Str("    P1")}
OutEcarts == {Empty, Num(-1), Num(1), Num(2)}
OutMontants == {Empty, Num(3000), Num(3001)}
OutRowsOver(columns) ==
    IF MontantCol \in Range(columns)
    THEN {(NameCol :> n) @@ (EcartCol :> e) @@ (DureeCol :> Empty) @@ (MontantCol :> m) :
            n \in OutNames, e \in OutEcarts, m \in OutMontants}
    ELSE {(NameCol :> n) @@ (EcartCol :> e) @@ (DureeCol :> Empty) :
            n \in OutNames, e \in OutEcarts}
OutTables ==
    UNION {{[columns |-> cols, rows |-> rows] :
               rows \in SeqsUpTo(OutRowsOver(cols), MaxOutRows)} :
           cols \in OutColumnLists}

OutputIdle ==
    /\ out_pc = "idle"
    /\ out_df = NoTable
    /\ self_columns = <<>>
    /\ high_ca_df = NoTable

\* self.columns is None (here <<>>) when the duration box is checked, and
\* ['Durée'] when it is not.
OutputInputs ==
    /\ out_pc = "recomputed"
    /\ out_df \in OutTables
    /\ self_columns \in {<<>>, <<DureeCol>>}
    /\ high_ca_df = NoTable

SommeEcart ==
    /\ out_pc = "recomputed"
    /\ out_df' = set_somme_ecart(out_df)
    /\ out_pc' = "summed"
    /\ UNCHANGED <<self_columns, high_ca_df>>
    /\ UNCHANGED <<validateVars, rafVars, summaryVars, pivotVars, mepVars, frameVars, flowVars, readVars, writeVars, workbookVars, tabVars, equivVars>>

\* Lines 149-150.
DropSelfColumns ==
    /\ out_pc = "summed"
    /\ out_df' = IF self_columns # <<>> THEN drop_columns(out_df, self_columns) ELSE out_df
    /\ out_pc' = "dropped"
    /\ UNCHANGED <<self_columns, high_ca_df>>
    /\ UNCHANGED <<validateVars, rafVars, summaryVars, pivotVars, mepVars, frameVars, flowVars, readVars, writeVars, workbookVars, tabVars, equivVars>>

HighCa ==
    /\ out_pc = "dropped"
    /\ high_ca_df' = high_ca(out_df)
    /\ out_pc' = "filtered"
    /\ UNCHANGED <<out_df, self_columns>>
    /\ UNCHANGED <<validateVars, rafVars, summaryVars, pivotVars, mepVars, frameVars, flowVars, readVars, writeVars, workbookVars, tabVars, equivVars>>

\* Lines 159-162.
WriteSummarySheets ==
    /\ out_pc = "filtered"
    /\ workbook' = write_multiple_sheets(<<<<"Resource Summary", out_df>>,
                                           <<"High CA", high_ca_df>>>>)
    /\ out_pc' = "written"
    /\ UNCHANGED <<out_df, self_columns, high_ca_df, w_pc, w_call, w_df>>
    /\ UNCHANGED <<validateVars, rafVars, summaryVars, pivotVars, mepVars, frameVars, flowVars, readVars, workbookVars, tabVars, equivVars>>

\* ------------------------------------------------------- add_raf_to_workbook

MaxWbRows == 2

\* An openpyxl worksheet is its title and its cells, a function from
\* <<row, column>> to the cell's value (Empty for a cell that exists without
\* a value).  A workbook is its sheets in order and the position of the
\* active one.
MaxOfSet(S) == CHOOSE x \in S : \A y \in S : y <= x

\* Worksheet.max_column: the highest column that holds a cell, and 1 for a
\* sheet without cells.
max_column(sheet) ==
    IF DOMAIN sheet.cells = {} THEN 1
    ELSE MaxOfSet({k[2] : k \in DOMAIN sheet.cells})

\* Worksheet.cell(row, column, value): the cell is created when it does not
\* exist, and its value is set unless value is None.
sheet_cell(sheet, row, column, value) ==
    LET key == <<row, column>>
        old == IF key \in DOMAIN sheet.cells THEN sheet.cells[key] ELSE Empty
        new == IF value = Empty THEN old ELSE value
    IN [sheet EXCEPT !.cells =
            [k \in DOMAIN sheet.cells \cup {key} |->
                IF k = key THEN new ELSE sheet.cells[k]]]

\* The loop over deployments_df['RAF'].values: one cell per value, from
\* row_index downwards.
RECURSIVE WriteRafValues(_, _, _, _)
WriteRafValues(sheet, column, values, row_index) ==
    IF values = <<>> THEN sheet
    ELSE WriteRafValues(sheet_cell(sheet, row_index, column, Head(values)),
                        column, Tail(values), row_index + 1)

\* Mutant: the column is the last one of the sheet, not the one after it.
add_raf_to_workbook_last_col(h, wb, raf) ==
    LET sheet == h[wb].sheets[h[wb].active]
        last_col == max_column(sheet)
        headed == sheet_cell(sheet, 1, last_col, Str("RAF"))
        filled == WriteRafValues(headed, last_col, raf, 2)
    IN [heap |-> [h EXCEPT ![wb].sheets[h[wb].active] = filled], ref |-> wb]

\* RAFProcessor.add_raf_to_workbook(workbook, deployments_df): the objects
\* in memory after the call and the reference returned.
add_raf_to_workbook(h, wb, raf) ==
    LET sheet == h[wb].sheets[h[wb].active]
        last_col == max_column(sheet) + 1
        headed == sheet_cell(sheet, 1, last_col, Str("RAF"))
        filled == WriteRafValues(headed, last_col, raf, 2)
    IN [heap |-> [h EXCEPT ![wb].sheets[h[wb].active] = filled], ref |-> wb]

\* The sheets tried: one without cells, a header alone, a table of two
\* columns with a row, and a sheet whose second column is unused.
NoCells == [k \in {} |-> Empty]
WbSheets ==
    { [title |-> "Sheet1", cells |-> NoCells],
      [title |-> "Sheet1", cells |-> [k \in {<<1, 1>>} |-> Str("Nom")]],
      [title |-> "Sheet1",
       cells |-> [k \in {<<1, 1>>, <<1, 2>>, <<2, 1>>, <<2, 2>>} |->
                    IF k[1] = 1 THEN Str("Nom") ELSE Num(k[2])]],
      [title |-> "Sheet1",
       cells |-> [k \in {<<1, 1>>, <<1, 3>>, <<2, 3>>} |->
                    IF k[1] = 1 THEN Str("Nom") ELSE Empty]] }
OtherSheet == [title |-> "Notes", cells |-> [k \in {<<1, 1>>} |-> Str("Nom")]]
WbWorkbooks ==
    {[sheets |-> <<s>>, active |-> 1] : s \in WbSheets}
    \cup {[sheets |-> <<OtherSheet, s>>, active |-> 2] : s \in WbSheets}
    \cup {[sheets |-> <<s, OtherSheet>>, active |-> 1] : s \in WbSheets}
RafValues == {Empty, Num(0), Num(3)}

WorkbookIdle ==
    /\ wb_pc = "idle"
    /\ wb_heap = <<>>
    /\ wb_arg = 0
    /\ wb_before = <<>>
    /\ wb_raf = <<>>
    /\ wb_result = 0

WorkbookInputs ==
    /\ wb_pc = "call"
    /\ wb_heap \in {<<w>> : w \in WbWorkbooks}
    /\ wb_arg = 1
    /\ wb_before = wb_heap[1]
    /\ wb_raf \in SeqsUpTo(RafValues, MaxWbRows)
    /\ wb_result = 0

AddRafToWorkbook ==
    /\ wb_pc = "call"
    /\ LET r == add_raf_to_workbook(wb_heap, wb_arg, wb_raf)
       IN /\ wb_heap' = r.heap
          /\ wb_result' = r.ref
    /\ wb_pc' = "done"
    /\ UNCHANGED <<wb_arg, wb_before, wb_raf>>
    /\ UNCHANGED <<validateVars, rafVars, summaryVars, pivotVars, mepVars, frameVars, flowVars, readVars, writeVars, outputVars, tabVars, equivVars>>

\* ------------------------------------------------------------------ the tabs

MaxRuns == 2
MaxProgress == 2

\* ResourceSummaryTab and RAFTab.  A click on 'Générer' reaches the tab only
\* when it is enabled; the worker's signals come from another thread and
\* are queued to the UI thread, which handles them one at a time, in the
\* order of their emission.
ResourceTab == "ResourceSummaryTab"
RafTab == "RAFTab"
Tabs == {ResourceTab, RafTab}
FilePaths == {"", "file.xlsx"}

ProgressUpdate == [signal |-> "progress_update", success |-> FALSE]
Finished(success) == [signal |-> "finished_signal", success |-> success]

\* The input files a tab asks for before it starts a worker.
missing_input(t, input_file, deployments_file) ==
    IF t = ResourceTab THEN input_file = "" \/ deployments_file = ""
    ELSE deployments_file = ""

TabIdle ==
    /\ tab = ""
    /\ tab_enabled = TRUE
    /\ progress_visible = FALSE
    /\ status = "normal"
    /\ workers = 0
    /\ queue = <<>>
    /\ runs = 0
    /\ progress_sent = 0
    /\ errors_shown = 0

\* setup_ui: the tab is enabled, the progress bar hidden, the status 'Ready'.
TabInputs ==
    /\ tab \in Tabs
    /\ tab_enabled = TRUE
    /\ progress_visible = FALSE
    /\ status = "normal"
    /\ workers = 0
    /\ queue = <<>>
    /\ runs = 0
    /\ progress_sent = 0
    /\ errors_shown = 0

\* Mutant: the tab is not disabled while the worker runs.
GenerateStaysEnabled ==
    /\ tab_enabled
    /\ \E input_file \in FilePaths, deployments_file \in FilePaths :
         IF missing_input(tab, input_file, deployments_file)
         THEN /\ errors_shown < MaxRuns
              /\ errors_shown' = errors_shown + 1
              /\ UNCHANGED <<tab_enabled, progress_visible, status, workers, runs, progress_sent>>
         ELSE /\ runs < MaxRuns
              /\ progress_visible' = TRUE
              /\ status' = "info"
              /\ workers' = workers + 1
              /\ runs' = runs + 1
              /\ progress_sent' = 0
              /\ UNCHANGED <<tab_enabled, errors_shown>>
    /\ UNCHANGED <<tab, queue>>
    /\ UNCHANGED <<validateVars, rafVars, summaryVars, pivotVars, mepVars, frameVars, flowVars, readVars, writeVars, outputVars, workbookVars, equivVars>>

\* generate_summary / process_raf, the slot of the button: with an input
\* file missing an error dialog is shown and nothing else happens;
\* otherwise the tab is disabled, the progress bar shown, the status set to
\* 'Processing...' and a worker thread started.
Generate ==
    /\ tab_enabled
    /\ \E input_file \in FilePaths, deployments_file \in FilePaths :
         IF missing_input(tab, input_file, deployments_file)
         THEN /\ errors_shown < MaxRuns
              /\ errors_shown' = errors_shown + 1
              /\ UNCHANGED <<tab_enabled, progress_visible, status, workers, runs, progress_sent>>
         ELSE /\ runs < MaxRuns
              /\ tab_enabled' = FALSE
              /\ progress_visible' = TRUE
              /\ status' = "info"
              /\ workers' = workers + 1
              /\ runs' = runs + 1
              /\ progress_sent' = 0
              /\ UNCHANGED errors_shown
    /\ UNCHANGED <<tab, queue>>
    /\ UNCHANGED <<validateVars, rafVars, summaryVars, pivotVars, mepVars, frameVars, flowVars, readVars, writeVars, outputVars, workbookVars, equivVars>>

\* The worker emits progress_update before a step.
WorkerProgress ==
    /\ workers > 0
    /\ progress_sent < MaxProgress
    /\ progress_sent' = progress_sent + 1
    /\ queue' = Append(queue, ProgressUpdate)
    /\ UNCHANGED <<tab, tab_enabled, progress_visible, status, workers, runs, errors_shown>>
    /\ UNCHANGED <<validateVars, rafVars, summaryVars, pivotVars, mepVars, frameVars, flowVars, readVars, writeVars, outputVars, workbookVars, equivVars>>

\* The worker ends its run by emitting finished_signal, with success or not.
WorkerFinished ==
    /\ workers > 0
    /\ \E success \in BOOLEAN : queue' = Append(queue, Finished(success))
    /\ workers' = workers - 1
    /\ UNCHANGED <<tab, tab_enabled, progress_visible, status, runs, progress_sent, errors_shown>>
    /\ UNCHANGED <<validateVars, rafVars, summaryVars, pivotVars, mepVars, frameVars, flowVars, readVars, writeVars, outputVars, workbookVars, equivVars>>

\* update_progress, the slot of progress_update.
UpdateProgress ==
    /\ queue # <<>>
    /\ Head(queue).signal = "progress_update"
    /\ status' = "info"
    /\ queue' = Tail(queue)
    /\ UNCHANGED <<tab, tab_enabled, progress_visible, workers, runs, progress_sent, errors_shown>>
    /\ UNCHANGED <<validateVars, rafVars, summaryVars, pivotVars, mepVars, frameVars, flowVars, readVars, writeVars, outputVars, workbookVars, equivVars>>

\* Mutant: the slot does not enable the tab again.
OnFinishedStaysDisabled ==
    /\ queue # <<>>
    /\ Head(queue).signal = "finished_signal"
    /\ progress_visible' = FALSE
    /\ status' = IF Head(queue).success THEN "success" ELSE "error"
    /\ queue' = Tail(queue)
    /\ UNCHANGED <<tab, tab_enabled, workers, runs, progress_sent, errors_shown>>
    /\ UNCHANGED <<validateVars, rafVars, summaryVars, pivotVars, mepVars, frameVars, flowVars, readVars, writeVars, outputVars, workbookVars, equivVars>>

\* on_generation_finished / on_processing_finished, the slot of
\* finished_signal: the tab is enabled, the progress bar hidden and the
\* message shown as a success or as an error.
OnFinished ==
    /\ queue # <<>>
    /\ Head(queue).signal = "finished_signal"
    /\ tab_enabled' = TRUE
    /\ progress_visible' = FALSE
    /\ status' = IF Head(queue).success THEN "success" ELSE "error"
    /\ queue' = Tail(queue)
    /\ UNCHANGED <<tab, workers, runs, progress_sent, errors_shown>>
    /\ UNCHANGED <<validateVars, rafVars, summaryVars, pivotVars, mepVars, frameVars, flowVars, readVars, writeVars, outputVars, workbookVars, equivVars>>

\* --------------------------------------- DeploymentProcessor.calculate_raf

MaxEqRows == 2

\* Mutant: the loop reads the keys of the first row for every row.
DeploymentProcessor_calculate_raf_first_row(df) ==
    [columns |-> df.columns \cup {"RAF"},
     rows |-> [i \in DOMAIN df.rows |->
                 [df.rows[i] EXCEPT !["RAF"] = RafOfRow(df.columns, df.rows[1])]]]

\* for idx, row in result_df.iterrows(): the rows from idx on, one after the
\* other; result_df.at[idx, 'RAF'] is assigned only when both keys are
\* truthy.
RECURSIVE DeploymentRafLoop(_, _)
DeploymentRafLoop(result_df_, idx) ==
    IF idx > Len(result_df_.rows) THEN result_df_
    ELSE LET row == result_df_.rows[idx]
             connection_level == IF ConnCol \in result_df_.columns THEN row[ConnCol] ELSE None
             project_phase == IF PhaseCol \in result_df_.columns THEN row[PhaseCol] ELSE None
             assigned ==
                 IF connection_level \notin {None, ""} /\ project_phase \notin {None, ""}
                 THEN [result_df_ EXCEPT !.rows[idx]["RAF"] =
                           get_raf(connection_level, project_phase)]
                 ELSE result_df_
         IN DeploymentRafLoop(assigned, idx + 1)

\* DeploymentProcessor.calculate_raf(df): a copy with the column 'RAF' set
\* to None, then the loop over its rows.
DeploymentProcessor_calculate_raf(df) ==
    DeploymentRafLoop([columns |-> df.columns \cup {"RAF"},
                       rows |-> [i \in DOMAIN df.rows |->
                                   [df.rows[i] EXCEPT !["RAF"] = Null]]], 1)

\* The tables tried, over a few of the cells of RafTables, and the
\* reorderings of their rows.
EqTables ==
    {t \in {[columns |-> cols, rows |-> rows] :
              cols \in SUBSET {ConnCol, PhaseCol},
              rows \in SeqsUpTo({RafRow(c, p) : c \in {"A", "C", ""}, p \in {"B", "D", None}},
                                MaxEqRows)} :
        WellFormedRafTable(t)}
Reorderings(n) == {p \in [1..n -> 1..n] : \A i, j \in 1..n : p[i] = p[j] => i = j}
Reordered(t, p) == [t EXCEPT !.rows = [i \in DOMAIN t.rows |-> t.rows[p[i]]]]

EqCalls == {"RAFProcessor", "DeploymentProcessor"} \X {"given", "reordered"}

EquivIdle ==
    /\ eq_df = EmptyTable
    /\ eq_perm = <<>>
    /\ eq_done = {}
    /\ eq_out = <<>>

EquivInputs ==
    /\ eq_df \in EqTables
    /\ eq_perm \in Reorderings(Len(eq_df.rows))
    /\ eq_done = {}
    /\ eq_out = [c \in EqCalls |-> EmptyTable]

EqInput(which) == IF which = "given" THEN eq_df ELSE Reordered(eq_df, eq_perm)

\* RAFProcessor.calculate_raf on the table or on its reordering.
EqCallRafProcessor ==
    \E which \in {"given", "reordered"} :
        /\ <<"RAFProcessor", which>> \notin eq_done
        /\ eq_out' = [eq_out EXCEPT ![<<"RAFProcessor", which>>] = calculate_raf(EqInput(which))]
        /\ eq_done' = eq_done \cup {<<"RAFProcessor", which>>}
        /\ UNCHANGED <<eq_df, eq_perm>>
        /\ UNCHANGED <<validateVars, rafVars, summaryVars, pivotVars, mepVars, frameVars, flowVars, readVars, writeVars, outputVars, workbookVars, tabVars>>

\* DeploymentProcessor.calculate_raf on the table or on its reordering.
EqCallDeploymentProcessor ==
    \E which \in {"given", "reordered"} :
        /\ <<"DeploymentProcessor", which>> \notin eq_done
        /\ eq_out' = [eq_out EXCEPT ![<<"DeploymentProcessor", which>>] =
                          DeploymentProcessor_calculate_raf(EqInput(which))]
        /\ eq_done' = eq_done \cup {<<"DeploymentProcessor", which>>}
        /\ UNCHANGED <<eq_df, eq_perm>>
        /\ UNCHANGED <<validateVars, rafVars, summaryVars, pivotVars, mepVars, frameVars, flowVars, readVars, writeVars, outputVars, workbookVars, tabVars>>

\* ----------------------------------------------------------- specifications

InitValidate == ValidateInputs /\ RafIdle /\ SummaryIdle /\ PivotIdle /\ MepIdle /\ FrameIdle /\ FlowIdle /\ ReadIdle /\ WriteIdle /\ OutputIdle /\ WorkbookIdle /\ TabIdle /\ EquivIdle
NextValidate == Validate
SpecValidate == InitValidate /\ [][NextValidate]_vars

InitRaf == RafInputs /\ ValidateIdle /\ SummaryIdle /\ PivotIdle /\ MepIdle /\ FrameIdle /\ FlowIdle /\ ReadIdle /\ WriteIdle /\ OutputIdle /\ WorkbookIdle /\ TabIdle /\ EquivIdle
NextRaf == CalculateRaf
SpecRaf == InitRaf /\ [][NextRaf]_vars

InitSummary == SummaryInputs /\ ValidateIdle /\ RafIdle /\ PivotIdle /\ MepIdle /\ FrameIdle /\ FlowIdle /\ ReadIdle /\ WriteIdle /\ OutputIdle /\ WorkbookIdle /\ TabIdle /\ EquivIdle
NextSummary == StartWorker \/ FormatSummary \/ PhaseFilter \/ RecomputeSums
SpecSummary == InitSummary /\ [][NextSummary]_vars

InitPivot == PivotInputs /\ ValidateIdle /\ RafIdle /\ SummaryIdle /\ MepIdle /\ FrameIdle /\ FlowIdle /\ ReadIdle /\ WriteIdle /\ OutputIdle /\ WorkbookIdle /\ TabIdle /\ EquivIdle
NextPivot == CreatePivotTable
SpecPivot == InitPivot /\ [][NextPivot]_vars

InitMonthly == MonthlyInputs /\ ValidateIdle /\ RafIdle /\ SummaryIdle /\ PivotIdle /\ FrameIdle /\ FlowIdle /\ ReadIdle /\ WriteIdle /\ OutputIdle /\ WorkbookIdle /\ TabIdle /\ EquivIdle
NextMonthly == CalculateMonthlyRaf
SpecMonthly == InitMonthly /\ [][NextMonthly]_vars

InitSheet == SheetInputs /\ ValidateIdle /\ RafIdle /\ SummaryIdle /\ PivotIdle /\ FrameIdle /\ FlowIdle /\ ReadIdle /\ WriteIdle /\ OutputIdle /\ WorkbookIdle /\ TabIdle /\ EquivIdle
NextSheet == CreateRafSummarySheet
SpecSheet == InitSheet /\ [][NextSheet]_vars

\* Both summaries computed from one deployments table that has 'Date de
\* MEP' and 'RAF', in either order.
RafSummaryInputs ==
    /\ m_pc = "call"
    /\ sh_pc = "call"
    /\ mep_df \in {t \in MepTables : t.columns = {DateCol, RafCol}}
    /\ monthly_result = <<>>
    /\ raf_sheet = <<>>

InitRafSummary == RafSummaryInputs /\ ValidateIdle /\ RafIdle /\ SummaryIdle /\ PivotIdle /\ FrameIdle /\ FlowIdle /\ ReadIdle /\ WriteIdle /\ OutputIdle /\ WorkbookIdle /\ TabIdle /\ EquivIdle
NextRafSummary == CalculateMonthlyRaf \/ CreateRafSummarySheet
SpecRafSummary == InitRafSummary /\ [][NextRafSummary]_vars

InitFrame == FrameInputs /\ ValidateIdle /\ RafIdle /\ SummaryIdle /\ PivotIdle /\ MepIdle /\ FlowIdle /\ ReadIdle /\ WriteIdle /\ OutputIdle /\ WorkbookIdle /\ TabIdle /\ EquivIdle
NextFrame ==
    \/ CallRafProcessorCalculateRaf
    \/ CallDeploymentProcessorCalculateRaf
    \/ CallCalculateMonthlyRaf
    \/ CallCreateRafSummarySheet
SpecFrame == InitFrame /\ [][NextFrame]_vars

InitFlow == FlowInputs /\ RafIdle /\ SummaryIdle /\ PivotIdle /\ MepIdle /\ FrameIdle /\ ReadIdle /\ WriteIdle /\ OutputIdle /\ WorkbookIdle /\ TabIdle /\ EquivIdle
NextFlow == FlowRead \/ FlowValidate \/ FlowStep \/ FlowRaise \/ FlowFinish
SpecFlow == InitFlow /\ [][NextFlow]_vars

InitRead == ReadInputs /\ ValidateIdle /\ RafIdle /\ SummaryIdle /\ PivotIdle /\ MepIdle /\ FrameIdle /\ FlowIdle /\ WriteIdle /\ OutputIdle /\ WorkbookIdle /\ TabIdle /\ EquivIdle
NextRead == ReadExcel
SpecRead == InitRead /\ [][NextRead]_vars

InitWrite == WriteInputs /\ ValidateIdle /\ RafIdle /\ SummaryIdle /\ PivotIdle /\ MepIdle /\ FrameIdle /\ FlowIdle /\ ReadIdle /\ OutputIdle /\ WorkbookIdle /\ TabIdle /\ EquivIdle
NextWrite == WriteExcel \/ WriteMultipleSheets
SpecWrite == InitWrite /\ [][NextWrite]_vars

InitOutput == OutputInputs /\ ValidateIdle /\ RafIdle /\ SummaryIdle /\ PivotIdle /\ MepIdle /\ FrameIdle /\ FlowIdle /\ ReadIdle /\ WriteIdle /\ WorkbookIdle /\ TabIdle /\ EquivIdle
NextOutput == SommeEcart \/ DropSelfColumns \/ HighCa \/ WriteSummarySheets
SpecOutput == InitOutput /\ [][NextOutput]_vars

InitWorkbook == WorkbookInputs /\ ValidateIdle /\ RafIdle /\ SummaryIdle /\ PivotIdle /\ MepIdle /\ FrameIdle /\ FlowIdle /\ ReadIdle /\ WriteIdle /\ OutputIdle /\ TabIdle /\ EquivIdle
NextWorkbook == AddRafToWorkbook
SpecWorkbook == InitWorkbook /\ [][NextWorkbook]_vars

\* A worker thread that was started runs to the end of run: every step
\* that can be taken is taken.
SpecFlowLive == InitFlow /\ [][NextFlow]_vars /\ WF_vars(NextFlow)

InitTab == TabInputs /\ ValidateIdle /\ RafIdle /\ SummaryIdle /\ PivotIdle /\ MepIdle /\ FrameIdle /\ FlowIdle /\ ReadIdle /\ WriteIdle /\ OutputIdle /\ WorkbookIdle /\ EquivIdle
NextTab == Generate \/ WorkerProgress \/ WorkerFinished \/ UpdateProgress \/ OnFinished
SpecTab == InitTab /\ [][NextTab]_vars

\* A worker thread runs to the end of run (C24), and the UI thread's event
\* loop handles every queued signal.
SpecTabLive ==
    /\ InitTab /\ [][NextTab]_vars
    /\ WF_vars(WorkerFinished) /\ WF_vars(UpdateProgress) /\ WF_vars(OnFinished)

InitEquiv == EquivInputs /\ ValidateIdle /\ RafIdle /\ SummaryIdle /\ PivotIdle /\ MepIdle /\ FrameIdle /\ FlowIdle /\ ReadIdle /\ WriteIdle /\ OutputIdle /\ WorkbookIdle /\ TabIdle
NextEquiv == EqCallRafProcessor \/ EqCallDeploymentProcessor
SpecEquiv == InitEquiv /\ [][NextEquiv]_vars

\* The sheet written from tables whose weeks can have sums of either sign
\* inside one month.
SignedSheetInputs ==
    /\ sh_pc = "call"
    /\ m_pc = "idle"
    /\ mep_df \in {[columns |-> {DateCol, RafCol}, rows |-> rows] :
                     rows \in SeqsUpTo({MepRow(d, r) :
                                          d \in {<<2023, 1, 2>>, <<2023, 3, 1>>, <<2023, 3, 6>>},
                                          r \in {Null, Some(-1), Some(1), Some(2)}},
                                       MaxMepRows)}
    /\ monthly_result = <<>>
    /\ raf_sheet = <<>>

InitSignedSheet == SignedSheetInputs /\ ValidateIdle /\ RafIdle /\ SummaryIdle /\ PivotIdle /\ FrameIdle /\ FlowIdle /\ ReadIdle /\ WriteIdle /\ OutputIdle /\ WorkbookIdle /\ TabIdle /\ EquivIdle
NextSignedSheet == CreateRafSummarySheet
SpecSignedSheet == InitSignedSheet /\ [][NextSignedSheet]_vars

\* The filter-and-recompute part of the run up to the 'somme ecart' cell.
NextResourceRun == StartWorker \/ FormatSummary \/ PhaseFilter \/ RecomputeSums \/ WriteSommeEcart
SpecResourceRun == InitSummary /\ [][NextResourceRun]_vars

\* ------------------------------------------------------------------- claims

\* C1: validate_dataframe returns (is_valid, missing) where missing is
\* exactly the required names that are not columns of the table, in the
\* order (and with the repetitions) of the required list, and is_valid is
\* true iff missing is empty, i.e. iff every required name is a column.
C1_ValidateContract ==
    v_pc = "done" =>
        /\ missing_columns = SelectSeq(required_columns, LAMBDA c : c \notin df_columns)
        /\ (is_valid <=> missing_columns = <<>>)
        /\ (is_valid <=> \A i \in DOMAIN required_columns : required_columns[i] \in df_columns)

\* C1 witness: a call with two missing names out of alphabetical order and
\* one present name between them.
C1_Witness ==
    /\ v_pc = "done"
    /\ required_columns = <<"c", "b", "a">>
    /\ df_columns = {"b"}
    /\ missing_columns = <<"c", "a">>
    /\ ~is_valid

\* C2: calculate_raf returns the input table with an 'RAF' column added
\* (also for zero rows or missing key columns); a row's RAF is null when its
\* connection level or phase is empty, None or absent, or when the pair is
\* not in the rule table, and is the rule table's value otherwise.
C2_CalculateRaf ==
    raf_pc = "done" =>
        /\ "RAF" \in result_df.columns
        /\ result_df.columns = deployments_df.columns \cup {"RAF"}
        /\ Len(result_df.rows) = Len(deployments_df.rows)
        /\ \A i \in DOMAIN deployments_df.rows :
             LET row == deployments_df.rows[i]
                 out == result_df.rows[i]
                 absentOrFalsy(col) == col \notin deployments_df.columns \/ row[col] \in {"", None}
                 pair == <<row[ConnCol], row[PhaseCol]>>
             IN /\ out[ConnCol] = row[ConnCol]
                /\ out[PhaseCol] = row[PhaseCol]
                /\ out["RAF"] = IF \/ absentOrFalsy(ConnCol)
                                   \/ absentOrFalsy(PhaseCol)
                                   \/ pair \notin DOMAIN RafRules
                                THEN Null
                                ELSE Some(RafRules[pair])

\* C2 witness: a two-row table whose first row matches rule (A, B) -> 5 and
\* whose second row has an empty phase.
C2_Witness ==
    /\ raf_pc = "done"
    /\ Len(result_df.rows) = 2
    /\ result_df.rows[1][ConnCol] = "A" /\ result_df.rows[1][PhaseCol] = "B"
    /\ result_df.rows[1]["RAF"] = Some(5)
    /\ result_df.rows[2][ConnCol] = "C" /\ result_df.rows[2][PhaseCol] = ""
    /\ result_df.rows[2]["RAF"] = Null

\* The formatted table the run filters, and the projection of a row on the
\* columns the filter and the recompute leave alone.
Formatted == format_resource_summary(pivot_df, phase_dict)
Fixed(row) == [name |-> row.name, indent |-> row.indent, charge |-> row.charge,
               phase |-> row.phase, res |-> row.res]

\* C3: after the phase filter and the recompute, every surviving resource
\* header row's 'Somme de Charge JH' is the sum of 'Charge JH' over the
\* surviving project rows of that resource, and is 0, not null, when none of
\* its project rows survives.
C3_AggregateIsSumOfSurvivors ==
    rs_pc = "recomputed" =>
        \A i \in DOMAIN summary_df :
            ~summary_df[i].indent =>
                LET mine == SelectSeq(summary_df,
                                      LAMBDA row : row.indent /\ row.res = summary_df[i].res)
                IN summary_df[i].somme = Some(SumOfCells([k \in DOMAIN mine |-> mine[k].charge]))

\* C3 witness: R1 keeps one project of two, so its aggregate changes from 3
\* to 2, and R2 keeps none, so its aggregate becomes 0.
C3_Witness ==
    /\ rs_pc = "recomputed"
    /\ Len(pivot_df) = 3
    /\ Len(summary_df) = 3
    /\ summary_df[1].name = "R1" /\ ~summary_df[1].indent /\ summary_df[1].somme = Some(2)
    /\ summary_df[2].name = "P2" /\ summary_df[2].indent /\ summary_df[2].charge = Some(2)
    /\ summary_df[3].name = "R2" /\ ~summary_df[3].indent /\ summary_df[3].somme = Some(0)
    /\ Formatted[1].somme = Some(3)
    /\ Formatted[4].somme = Some(1)

\* C4: the phase filter keeps a row iff its phase is in the selected phases
\* or its 'Somme de Charge JH' is present and non-zero; the kept rows stay
\* in their original relative order, also after the recomputed sums are
\* merged back.
C4_FilterKeepsExactly ==
    rs_pc \in {"recompute", "recomputed"} =>
        LET expected == SelectSeq(Formatted,
                                  LAMBDA row : \/ row.phase \in Range(phases_checked)
                                               \/ (row.somme # Null /\ row.somme[1] # 0))
        IN /\ Len(summary_df) = Len(expected)
           /\ \A i \in DOMAIN expected : Fixed(summary_df[i]) = Fixed(expected[i])

\* C4 witness: after the merge, a table that lost a project row in the
\* middle and kept the rows around it in order, one header kept by its
\* non-zero aggregate and one by its phase alone.
C4_Witness ==
    /\ rs_pc = "recomputed"
    /\ Len(Formatted) = 5
    /\ Len(summary_df) = 4
    /\ <<summary_df[1].name, summary_df[2].name, summary_df[3].name, summary_df[4].name>>
         = <<"R1", "P1", "R2", "P1">>
    /\ Formatted[1].somme # Some(0)
    /\ Formatted[4].somme = Some(0)

PairsOf(rows) == {<<rows[i].Ressource, rows[i].Projet>> : i \in DOMAIN rows}
TotalCharge(rows) == SumOfCells([i \in DOMAIN rows |-> rows[i].charge])

\* C6 as stated: the pivot has one row per distinct (resource, project)
\* pair seen in the input, each pair once, valued with the sum of the pair's
\* non-null workloads, so the output total equals the total of all non-null
\* input workloads, for every input.
C6_PivotAllPairs ==
    pt_pc = "done" =>
        /\ PairsOf(pivot_result) = PairsOf(charge_df)
        /\ Cardinality(PairsOf(pivot_result)) = Len(pivot_result)
        /\ \A k \in DOMAIN pivot_result :
             pivot_result[k].charge =
                 Some(TotalCharge(SelectSeq(charge_df, LAMBDA row :
                     row.Ressource = pivot_result[k].Ressource
                     /\ row.Projet = pivot_result[k].Projet)))
        /\ TotalCharge(pivot_result) = TotalCharge(charge_df)

\* C6 amended: the same, over the input rows whose resource and project are
\* both present; a row with an empty resource or project cell is in no group
\* and its workload is not counted.
C6_PivotKeyedPairs ==
    pt_pc = "done" =>
        LET keyed == SelectSeq(charge_df, LAMBDA row : row.Ressource # NaN /\ row.Projet # NaN)
        IN /\ PairsOf(pivot_result) = PairsOf(keyed)
           /\ Cardinality(PairsOf(pivot_result)) = Len(pivot_result)
           /\ \A k \in DOMAIN pivot_result :
                pivot_result[k].charge =
                    Some(TotalCharge(SelectSeq(charge_df, LAMBDA row :
                        row.Ressource = pivot_result[k].Ressource
                        /\ row.Projet = pivot_result[k].Projet)))
           /\ TotalCharge(pivot_result) = TotalCharge(keyed)

\* C6 witness: two rows of the same pair are summed, and a row without a
\* resource is left out although it has a workload.
C6_Witness ==
    /\ pt_pc = "done"
    /\ charge_df = <<[Ressource |-> "R2", Projet |-> "P1", charge |-> Some(1)],
              [Ressource |-> NaN, Projet |-> "P1", charge |-> Some(2)],
              [Ressource |-> "R2", Projet |-> "P1", charge |-> Some(2)]>>
    /\ pivot_result = <<[Ressource |-> "R2", Projet |-> "P1", charge |-> Some(3)]>>

\* The input rows calculate_monthly_raf counts: those with a calendar date
\* and a non-null RAF, when the table has both columns.
Counted(t) ==
    IF DateCol \notin t.columns \/ RafCol \notin t.columns THEN <<>>
    ELSE SelectSeq(t.rows, LAMBDA row : to_datetime(row[DateCol]) # NaT /\ row[RafCol] # Null)
RafTotal(rows) == SumOfCells([i \in DOMAIN rows |-> rows[i][RafCol]])
InMonth(rows, y, m) ==
    SelectSeq(rows, LAMBDA row : row[DateCol][1] = y /\ row[DateCol][2] = m)

\* C7: calculate_monthly_raf ignores every row whose date is unparseable
\* or missing or whose RAF is null, and returns exactly one row per
\* (year, month) that has a remaining row, with 'Total RAF' the sum of RAF
\* over the month's remaining rows and 'Month Name' the month's name.
C7_MonthlyRows ==
    m_pc = "done" =>
        /\ \A k \in DOMAIN monthly_result :
             LET row == monthly_result[k]
                 of == InMonth(Counted(mep_df), row.Year, row.Month)
             IN /\ of # <<>>
                /\ row.TotalRAF = RafTotal(of)
                /\ row.MonthName = month_name[row.Month]
        /\ \A i \in DOMAIN Counted(mep_df) :
             \E k \in DOMAIN monthly_result :
                 /\ monthly_result[k].Year = Counted(mep_df)[i][DateCol][1]
                 /\ monthly_result[k].Month = Counted(mep_df)[i][DateCol][2]
        /\ \A k1, k2 \in DOMAIN monthly_result :
             (/\ monthly_result[k1].Year = monthly_result[k2].Year
              /\ monthly_result[k1].Month = monthly_result[k2].Month) => k1 = k2

\* C7 witness: the single row dated 2023-01-01 with RAF 1.
C7_Witness ==
    /\ m_pc = "done"
    /\ mep_df.rows = <<MepRow(<<2023, 1, 1>>, Some(1))>>
    /\ monthly_result = <<[Year |-> 2023, Month |-> 1, MonthName |-> "January", TotalRAF |-> 1]>>

\* C8: the sum of the 'Total RAF' column of the monthly table equals the
\* sum of all non-null RAF values of the input rows whose date parsed
\* (periods whose sum is exactly zero contribute zero).
C8_MonthlyRoundTrip ==
    m_pc = "done" =>
        SumSeq([k \in DOMAIN monthly_result |-> monthly_result[k].TotalRAF])
            = RafTotal(Counted(mep_df))

\* C8 witness: two counted rows in one month adding up to a non-zero
\* total (here -2, from -1 and -1).
C8_Witness ==
    /\ m_pc = "done"
    /\ Len(Counted(mep_df)) = 2
    /\ Len(monthly_result) = 1
    /\ monthly_result[1].TotalRAF = -2

\* C10 as stated: the monthly table has no row whose 'Total RAF' is exactly
\* zero.
C10_NoZeroMonth ==
    m_pc = "done" =>
        \A k \in DOMAIN monthly_result : monthly_result[k].TotalRAF # 0

\* C10 amended: calculate_monthly_raf drops no month: a month whose counted
\* RAF values sum to exactly zero is in the table, with 'Total RAF' 0.
C10_ZeroMonthReported ==
    m_pc = "done" =>
        \A y \in {2023, 2024}, m \in 1..12 :
            LET of == InMonth(Counted(mep_df), y, m)
            IN (of # <<>> /\ RafTotal(of) = 0) =>
                   \E k \in DOMAIN monthly_result :
                       /\ monthly_result[k].Year = y
                       /\ monthly_result[k].Month = m
                       /\ monthly_result[k].TotalRAF = 0

\* C10 witness: January 2023 holds 1 and -1 and is reported with total 0.
C10_Witness ==
    /\ m_pc = "done"
    /\ mep_df.rows = <<MepRow(<<2023, 1, 1>>, Some(1)), MepRow(<<2023, 1, 2>>, Some(-1))>>
    /\ monthly_result = <<[Year |-> 2023, Month |-> 1, MonthName |-> "January", TotalRAF |-> 0]>>

\* C9: in the 'RAF Summary' sheet no month row has a total of exactly zero
\* and no week row has a sum of exactly zero.
C9_NoZeroPeriodInSheet ==
    sh_pc = "done" =>
        \A k \in DOMAIN raf_sheet :
            raf_sheet[k].kind \in {"month", "week"} => raf_sheet[k].value # 0

\* C9 witness: January 2023 has a total of zero and is left out, March 2023
\* is listed with its week.
C9_Witness ==
    /\ sh_pc = "done"
    /\ mep_df.rows = <<MepRow(<<2023, 1, 2>>, Some(0)), MepRow(<<2023, 3, 1>>, Some(1))>>
    /\ raf_sheet = <<[kind |-> "year", year |-> 2023],
                     [kind |-> "month", month |-> "March", value |-> 1],
                     [kind |-> "week", label |-> [week |-> 9, days |-> <<1>>, text |-> "Week 9 (01)"], value |-> 1]>>

\* The dated rows of the sheet's table that fall in one month, and those of
\* them that fall in one ISO week.
SheetMonth(t, y, m) ==
    SelectSeq(t.rows, LAMBDA row :
        /\ to_datetime(row[DateCol]) # NaT
        /\ row[DateCol][1] = y /\ row[DateCol][2] = m)
SheetWeek(t, y, m, w) ==
    SelectSeq(SheetMonth(t, y, m), LAMBDA row : IsoWeek(to_datetime(row[DateCol])) = w)

\* C11 as stated: only periods whose RAF sum is exactly zero are left out
\* of the 'RAF Summary' sheet: a month whose total is not zero (negative
\* included) has its month row with that total, and within it every week
\* whose sum is not zero (negative included) has its week row with that sum.
C11_NegativePeriodsReported ==
    sh_pc = "done" =>
        \A y \in {2023, 2024}, m \in 1..12 :
            LET of == SheetMonth(mep_df, y, m)
            IN (of # <<>> /\ RafTotal(of) # 0) =>
                /\ \E k \in DOMAIN raf_sheet :
                       /\ raf_sheet[k].kind = "month"
                       /\ raf_sheet[k].month = month_name[m]
                       /\ raf_sheet[k].value = RafTotal(of)
                /\ \A w \in 1..53 :
                       LET ofw == SheetWeek(mep_df, y, m, w)
                       IN (ofw # <<>> /\ RafTotal(ofw) # 0) =>
                           \E k \in DOMAIN raf_sheet :
                               /\ raf_sheet[k].kind = "week"
                               /\ raf_sheet[k].label.week = w
                               /\ raf_sheet[k].value = RafTotal(ofw)

\* The (year, calendar month) of each month row of the sheet, the year
\* being that of the last year row above it.
RECURSIVE SheetMonths(_, _)
SheetMonths(sheet, year) ==
    IF sheet = <<>> THEN <<>>
    ELSE LET row == Head(sheet)
         IN IF row.kind = "year" THEN SheetMonths(Tail(sheet), row.year)
            ELSE (IF row.kind = "month"
                  THEN <<<<year, IndexIn(month_name, row.month)>>>> ELSE <<>>)
                 \o SheetMonths(Tail(sheet), year)
SheetYears(sheet) ==
    LET rows == SelectSeq(sheet, LAMBDA row : row.kind = "year")
    IN [k \in DOMAIN rows |-> rows[k].year]
YearMonthAscending(list) ==
    \A k \in 1..(Len(list) - 1) :
        \/ list[k][1] < list[k + 1][1]
        \/ (list[k][1] = list[k + 1][1] /\ list[k][2] < list[k + 1][2])

\* C12: whatever the order of the input rows, the rows of the monthly
\* table are in ascending order of year and, within a year, of calendar
\* month, and so are the year rows and the month rows of the 'RAF Summary'
\* sheet.
C12_YearThenMonthOrder ==
    /\ m_pc = "done" =>
           YearMonthAscending([k \in DOMAIN monthly_result |->
                                 <<monthly_result[k].Year, monthly_result[k].Month>>])
    /\ sh_pc = "done" =>
           /\ \A k \in 1..(Len(SheetYears(raf_sheet)) - 1) :
                  SheetYears(raf_sheet)[k] < SheetYears(raf_sheet)[k + 1]
           /\ YearMonthAscending(SheetMonths(raf_sheet, 0))

\* C12 witness: the input has March 2023 before January 2023; the table
\* and the sheet both have January first.
C12_Witness ==
    /\ m_pc = "done"
    /\ sh_pc = "done"
    /\ mep_df.rows = <<MepRow(<<2023, 3, 1>>, Some(1)), MepRow(<<2023, 1, 2>>, Some(1))>>
    /\ monthly_result = <<[Year |-> 2023, Month |-> 1, MonthName |-> "January", TotalRAF |-> 1],
                          [Year |-> 2023, Month |-> 3, MonthName |-> "March", TotalRAF |-> 1]>>
    /\ raf_sheet = <<[kind |-> "year", year |-> 2023],
                     [kind |-> "month", month |-> "January", value |-> 1],
                     [kind |-> "week", label |-> [week |-> 1, days |-> <<2>>, text |-> "Week 1 (02)"], value |-> 1],
                     [kind |-> "month", month |-> "March", value |-> 1],
                     [kind |-> "week", label |-> [week |-> 9, days |-> <<1>>, text |-> "Week 9 (01)"], value |-> 1]>>

\* Two objects hold the same table: the same columns with the same dtypes,
\* and the same rows.
SameTable(a, b) ==
    /\ a.columns = b.columns
    /\ a.datetime64 = b.datetime64
    /\ a.rows = b.rows

\* C13: calculate_raf, calculate_monthly_raf and create_raf_summary_sheet
\* never change the caller's table: after the call the object the caller
\* passed has the columns, the rows and the values it had before (no
\* 'RAF', 'Month', 'Year' or 'Month Name' column, and 'Date de MEP' not
\* converted).
C13_CallerTableUnchanged ==
    f_pc = "done" =>
        /\ SameTable(heap[caller_df], caller_before)
        /\ returned # caller_df

\* C13 witness: calculate_monthly_raf was called on a table with a date
\* and an impossible date; the copy holds the converted dates, the
\* caller's table still holds the cells as they were.
C13_Witness ==
    /\ f_pc = "done"
    /\ f_call = "DeploymentProcessor.calculate_monthly_raf"
    /\ caller_before.rows = <<MepRow(<<2023, 1, 1>>, Some(1)), MepRow(<<2023, 2, 30>>, Some(1))>>
    /\ caller_before.columns = {DateCol, RafCol}
    /\ heap[2].datetime64 = {DateCol}
    /\ heap[2].rows[2][DateCol] = NaT
    /\ heap[caller_df].datetime64 = {}
    /\ heap[caller_df].rows[2][DateCol] = <<2023, 2, 30>>
    /\ Len(heap[returned].rows) = 1

\* C14: when validation finds a required column missing, the flow reports
\* the missing names as a failure (a GUI worker emits finished_signal(False,
\* message naming them, ""), a CLI command prints the error), nothing is
\* raised, and the flow stops there: no step after validation is executed
\* (no lookup, pivot, RAF computation, file copy or workbook write) and the
\* output file is neither created nor modified.
C14_ValidationFailureStops ==
    missing_columns # <<>> =>
        /\ missing_columns = SelectSeq(FlowRequired(flow), LAMBDA c : c \notin df_columns)
        /\ fl_pc = "done"
        /\ effects = <<>>
        /\ output_file \in {"absent", "old"}
        /\ IF flow \in GuiFlows
           THEN /\ finished_signal = <<Signal(FALSE, MissingMessage(missing_columns), "")>>
                /\ printed = <<>>
           ELSE /\ printed = <<MissingMessage(missing_columns)>>
                /\ finished_signal = <<>>

\* C14 witness: the RAF worker read a table that has only 'Niveau de
\* connexion' and reported the two other columns as missing.
C14_Witness ==
    /\ flow = RafWorker
    /\ fl_pc = "done"
    /\ df_columns = {"Niveau de connexion"}
    /\ effects = <<>>
    /\ output_file = "old"
    /\ finished_signal =
         <<Signal(FALSE, MissingMessage(<<"Phase du projet", "Date de MEP">>), "")>>

\* C15 as stated: in the resource-summary flows a table headed 'Resource'
\* (without 'Ressource', with 'Projet' and 'Soumise (h)') is accepted: no
\* column is reported missing once the table has been validated, and the
\* flow goes on to rename the column and run its steps.
C15_ResourceHeaderAccepted ==
    (/\ flow \in {ResourceWorker, ResourceCli}
     /\ required_columns # <<>>
     /\ "Ressource" \notin df_columns
     /\ {"Resource", "Projet", "Soumise (h)"} \subseteq df_columns)
    => /\ is_valid
       /\ missing_columns = <<>>
       /\ \A k \in DOMAIN finished_signal :
              finished_signal[k].message.kind # "missing columns"
       /\ \A k \in DOMAIN printed : printed[k].kind # "missing columns"

\* C16: read_excel raises FileNotFoundError when the path does not exist,
\* and then reads nothing; when the path exists it returns the table read
\* from the file and raises no FileNotFoundError.
C16_ReadExcel ==
    rd_pc = "done" =>
        IF file_path \notin DOMAIN file_system
        THEN /\ rd_raised = "FileNotFoundError"
             /\ rd_reads = <<>>
        ELSE /\ rd_raised = ""
             /\ rd_reads = <<file_path>>
             /\ rd_df = file_system[file_path][1]

\* C16 witness: 'not_a_file.xlsx' does not exist while another file does,
\* and the call raised without reading.
C16_Witness ==
    /\ rd_pc = "done"
    /\ file_path = "not_a_file.xlsx"
    /\ DOMAIN file_system = {"file.xlsx"}
    /\ rd_raised = "FileNotFoundError"
    /\ rd_reads = <<>>

\* A data row of a written sheet is an indented project row when its
\* first cell is a text that starts with four spaces.
IndentedRow(sheet, k) ==
    sheet.rows[k].values[sheet.header.values[1]] \in {Str("    P1"), Str("    P2")}

\* C17: in a written sheet that has an 'Ecart' column, the Ecart cell of a
\* data row is filled light green (C6E0B4) iff the row is an indented
\* project row and the value is a number above zero, light red (F8CBAD)
\* iff it is an indented project row and the value is a number below zero,
\* and is left without fill otherwise (zero, empty or not a number, or a
\* resource row).
C17_EcartFillBySign ==
    w_pc = "done" =>
        \A s \in DOMAIN workbook :
            LET sheet == workbook[s]
            IN EcartCol \in Range(sheet.header.values) =>
                \A k \in DOMAIN sheet.rows :
                    LET v == sheet.rows[k].values[EcartCol]
                        numeric == v.t = "num"
                    IN /\ sheet.rows[k].ecart_fill = "C6E0B4"
                          <=> (IndentedRow(sheet, k) /\ numeric /\ v.v > 0)
                       /\ sheet.rows[k].ecart_fill = "F8CBAD"
                          <=> (IndentedRow(sheet, k) /\ numeric /\ v.v < 0)
                       /\ sheet.rows[k].ecart_fill \in {"", "C6E0B4", "F8CBAD"}

\* C17 witness: write_multiple_sheets wrote a resource row whose Ecart is
\* 1, left without fill, above a project row whose Ecart is -1, filled
\* red.
C17_Witness ==
    /\ w_pc = "done"
    /\ w_call = "write_multiple_sheets"
    /\ w_df.columns = <<NameCol, EcartCol>>
    /\ Len(workbook[1].rows) = 2
    /\ workbook[1].rows[1].values = (NameCol :> Str("R1")) @@ (EcartCol :> Num(1))
    /\ workbook[1].rows[1].ecart_fill = ""
    /\ workbook[1].rows[2].values = (NameCol :> Str("    P1")) @@ (EcartCol :> Num(-1))
    /\ workbook[1].rows[2].ecart_fill = "F8CBAD"

\* C18: in every written sheet a data row has all its cells bold iff its
\* first cell does not start with four spaces; an indented project row
\* has no bold cell, and the rule leaves the header line alone.
C18_BoldResourceRows ==
    w_pc = "done" =>
        \A s \in DOMAIN workbook :
            LET sheet == workbook[s]
            IN /\ sheet.header.bold = {}
               /\ \A k \in DOMAIN sheet.rows :
                      sheet.rows[k].bold =
                          IF IndentedRow(sheet, k) THEN {}
                          ELSE Range(sheet.header.values)

\* C18 witness: write_excel wrote a row whose name has two leading
\* spaces, bold in both cells, and an indented row, not bold.
C18_Witness ==
    /\ w_pc = "done"
    /\ w_call = "write_excel"
    /\ w_df.columns = <<NameCol, EcartCol>>
    /\ Len(workbook[1].rows) = 2
    /\ workbook[1].rows[1].values[NameCol] = Str("  P1")
    /\ workbook[1].rows[1].bold = {NameCol, EcartCol}
    /\ workbook[1].rows[2].values[NameCol] = Str("    P1")
    /\ workbook[1].rows[2].bold = {}

\* C19: the 'High CA' table holds exactly the rows of the final 'Resource
\* Summary' table whose contract amount is a number strictly above 3000,
\* in the same order and with the same columns (3000 or less, or no
\* amount: left out); it has the same columns and no row when the amount
\* column is absent; and these are the rows of the 'High CA' sheet.
C19_HighCaRows ==
    /\ out_pc \in {"filtered", "written"} =>
           /\ high_ca_df.columns = out_df.columns
           /\ high_ca_df.rows =
                  IF MontantCol \in Range(out_df.columns)
                  THEN SelectSeq(out_df.rows, LAMBDA row :
                           row[MontantCol].t = "num" /\ row[MontantCol].v > 3000)
                  ELSE <<>>
    /\ out_pc = "written" =>
           /\ workbook[1].title = "Resource Summary"
           /\ [k \in DOMAIN workbook[1].rows |-> workbook[1].rows[k].values] = out_df.rows
           /\ workbook[2].title = "High CA"
           /\ workbook[2].header.values = out_df.columns
           /\ [k \in DOMAIN workbook[2].rows |-> workbook[2].rows[k].values] = high_ca_df.rows

\* C19 witness: of two project rows with amounts 3001 and 3000, in that
\* table order second and first, only the one with 3001 is in High CA.
C19_Witness ==
    /\ out_pc = "written"
    /\ Len(out_df.rows) = 2
    /\ MontantCol \in Range(out_df.columns)
    /\ out_df.rows[1][MontantCol] = Num(3000)
    /\ out_df.rows[2][MontantCol] = Num(3001)
    /\ out_df.rows[2][NameCol] = Str("    P1")
    /\ Len(workbook[2].rows) = 1
    /\ workbook[2].rows[1].values = out_df.rows[2]

\* C20: after the run the 'somme ecart' cell of the first row of the
\* output table is the sum of the non-null 'Ecart' values of the rows
\* that survived the phase filter, and the 'somme ecart' cell of every
\* other row is empty.
C20_SommeEcartInRowZero ==
    out_pc \in {"summed", "dropped", "filtered", "written"} =>
        /\ SommeEcartCol \in Range(out_df.columns)
        /\ Len(out_df.rows) >= 1
        /\ out_df.rows[1][SommeEcartCol] =
               Num(SumSeq([i \in DOMAIN out_df.rows |->
                             IF out_df.rows[i][EcartCol] = Empty THEN 0
                             ELSE out_df.rows[i][EcartCol].v]))
        /\ \A i \in 2..Len(out_df.rows) : out_df.rows[i][SommeEcartCol] = Empty

\* C20 witness: the rows carry Ecart -1 and 2; the first row holds their
\* sum 1 and the second row's cell is empty.
C20_Witness ==
    /\ out_pc = "written"
    /\ Len(out_df.rows) = 2
    /\ out_df.rows[1][EcartCol] = Num(-1)
    /\ out_df.rows[2][EcartCol] = Num(2)
    /\ out_df.rows[1][SommeEcartCol] = Num(1)
    /\ out_df.rows[2][SommeEcartCol] = Empty

\* The cells of the RAF column: the header in row 1 and the i-th value of
\* the table in row i + 2.
RafColumnKeys == {<<1, max_column(wb_before.sheets[wb_before.active]) + 1>>}
    \cup {<<i + 1, max_column(wb_before.sheets[wb_before.active]) + 1>> : i \in 1..Len(wb_raf)}

\* C21: add_raf_to_workbook writes the header 'RAF' in row 1 of the column
\* after the active sheet's last column (max_column, which is 1 on a sheet
\* without cells) and the i-th RAF value (i = 0, 1, ...) in row i + 2 of
\* that column; every other cell and sheet of the workbook is as before, no
\* cell is added elsewhere, and the reference returned is the one given.
C21_AddRafToWorkbook ==
    wb_pc = "done" =>
        LET after == wb_heap[wb_arg]
            a == wb_before.active
            before_cells == wb_before.sheets[a].cells
            cells == after.sheets[a].cells
            col == max_column(wb_before.sheets[a]) + 1
        IN /\ wb_result = wb_arg
           /\ Len(wb_heap) = 1
           /\ after.active = a
           /\ Len(after.sheets) = Len(wb_before.sheets)
           /\ \A s \in 1..Len(after.sheets) :
                s # a => after.sheets[s] = wb_before.sheets[s]
           /\ after.sheets[a].title = wb_before.sheets[a].title
           /\ DOMAIN cells = DOMAIN before_cells \cup RafColumnKeys
           /\ DOMAIN before_cells \cap RafColumnKeys = {}
           /\ \A k \in DOMAIN before_cells : cells[k] = before_cells[k]
           /\ cells[<<1, col>>] = Str("RAF")
           /\ \A i \in 1..Len(wb_raf) : cells[<<i + 1, col>>] = wb_raf[i]

\* C21 witness: the call returned on a workbook of two sheets whose active
\* sheet had cells, with a number and an empty RAF value written.
C21_Witness ==
    /\ wb_pc = "done"
    /\ Len(wb_before.sheets) = 2
    /\ DOMAIN wb_before.sheets[wb_before.active].cells # {}
    /\ Len(wb_raf) = 2
    /\ wb_raf[1] = Num(3)
    /\ wb_raf[2] = Empty
    /\ wb_heap[wb_arg] # wb_before

\* The year and the calendar month a row of the sheet stands under: those
\* of the last year row and of the last month row above it.
RECURSIVE YearOfRow(_, _)
YearOfRow(sheet, k) ==
    IF k = 0 THEN 0
    ELSE IF sheet[k].kind = "year" THEN sheet[k].year
    ELSE YearOfRow(sheet, k - 1)
RECURSIVE MonthOfRow(_, _)
MonthOfRow(sheet, k) ==
    IF k = 0 THEN 0
    ELSE IF sheet[k].kind = "month" THEN IndexIn(month_name, sheet[k].month)
    ELSE MonthOfRow(sheet, k - 1)

TwoDigits == <<"01", "02", "03", "04", "05", "06", "07", "08", "09", "10",
               "11", "12", "13", "14", "15", "16", "17", "18", "19", "20",
               "21", "22", "23", "24", "25", "26", "27", "28", "29", "30", "31">>

\* C22: every week row of the 'RAF Summary' sheet stands for the rows of its
\* month whose date is in one ISO week: its value is the sum of their
\* non-null RAF, a month has one row per week number, and its label is
\* 'Week N (DD to DD)' with the smallest and the largest day of the month among
\* those rows, in two digits, or 'Week N (DD)' when they are the same day.
C22_WeekGroupsAndLabels ==
    sh_pc = "done" =>
        \A k \in DOMAIN raf_sheet :
            raf_sheet[k].kind = "week" =>
                LET y == YearOfRow(raf_sheet, k)
                    m == MonthOfRow(raf_sheet, k)
                    n == raf_sheet[k].label.week
                    group == SheetWeek(mep_df, y, m, n)
                    days == {group[i][DateCol][3] : i \in DOMAIN group}
                    lo == CHOOSE d \in days : \A e \in days : d <= e
                    hi == CHOOSE d \in days : \A e \in days : e <= d
                IN /\ group # <<>>
                   /\ raf_sheet[k].value = RafTotal(group)
                   /\ raf_sheet[k].label.text =
                        IF lo = hi
                        THEN "Week " \o ToString(n) \o " (" \o TwoDigits[lo] \o ")"
                        ELSE "Week " \o ToString(n) \o " (" \o TwoDigits[lo]
                                 \o " to " \o TwoDigits[hi] \o ")"
                   /\ \A j \in DOMAIN raf_sheet :
                        (/\ j # k
                         /\ raf_sheet[j].kind = "week"
                         /\ YearOfRow(raf_sheet, j) = y
                         /\ MonthOfRow(raf_sheet, j) = m)
                        => raf_sheet[j].label.week # n

\* C22 witness: two rows of week 9 of March 2023, the later day first, give
\* one week row 'Week 9 (01 to 03)' with the sum of their RAF.
C22_Witness ==
    /\ sh_pc = "done"
    /\ mep_df.rows = <<MepRow(<<2023, 3, 3>>, Some(1)), MepRow(<<2023, 3, 1>>, Some(1))>>
    /\ \E k \in DOMAIN raf_sheet :
        /\ raf_sheet[k].kind = "week"
        /\ raf_sheet[k].label.text = "Week 9 (01 to 03)"
        /\ raf_sheet[k].value = 2

\* The signal a worker emitted last.
LastSignal == finished_signal[Len(finished_signal)]

\* C23 as stated: a resource-summary run that passed validation and in
\* which no read and no write failed ends with finished_signal(True,
\* success message, output_file), and when there is a figure the step
\* add_graphs_sheet has added the chart sheet before that.
C23_ResourceRunSucceeds ==
    (/\ flow = ResourceWorker
     /\ fl_pc = "done"
     /\ is_valid
     /\ fl_raised # "Exception")
    => /\ finished_signal # <<>>
       /\ LastSignal = Signal(TRUE, SuccessMessage, "output_file")
       /\ has_figures => "add_graphs_sheet" \in Range(effects)

\* C24: a run of ResourceSummaryWorker or of RAFWorker always comes to its
\* end, no exception leaves it, finished_signal is never emitted twice, and
\* at the end (validation failure, success or an exception in a step) it
\* has been emitted exactly once, as the last signal of the run.
C24_FinishedOnceAndLast ==
    /\ [](flow \in GuiFlows =>
            /\ fl_pc # "escaped"
            /\ Len(finished_signal) <= 1
            /\ Len(SelectSeq(emitted, LAMBDA e : e = "finished_signal")) = Len(finished_signal)
            /\ fl_pc = "done" =>
                 /\ Len(finished_signal) = 1
                 /\ emitted[Len(emitted)] = "finished_signal")
    /\ <>(fl_pc = "done")

\* C24 witness: a worker whose step raised after some progress_update has
\* emitted finished_signal(False, ...) once, last.
C24_Witness ==
    /\ flow \in GuiFlows
    /\ fl_pc = "done"
    /\ fl_raised = "Exception"
    /\ fl_step > 2
    /\ Len(emitted) > 3
    /\ finished_signal = <<Signal(FALSE, ErrorMessage, "")>>
    /\ emitted[Len(emitted)] = "finished_signal"

\* A finished_signal is waiting to be handled.
FinishedPending == \E i \in DOMAIN queue : queue[i].signal = "finished_signal"

\* C25: from the start of a worker until its finished_signal is handled the
\* tab is disabled, at most one worker of the tab runs at any time, and a
\* request with a missing input file (an error dialog is shown) starts no
\* worker and leaves the tab enabled.
C25_OneWorkerPerTab ==
    /\ [](/\ workers <= 1
          /\ (workers > 0 \/ FinishedPending) => ~tab_enabled
          /\ workers + Len(SelectSeq(queue, LAMBDA e : e.signal = "finished_signal")) <= 1)
    /\ [][errors_shown' # errors_shown =>
            /\ tab_enabled /\ tab_enabled'
            /\ workers' = workers /\ workers = 0
            /\ runs' = runs]_vars

\* C25 witness: a second run of the tab is under way, after a request with
\* a missing input file, and the tab is disabled.
C25_Witness ==
    /\ runs = 2
    /\ errors_shown = 1
    /\ workers = 1
    /\ ~tab_enabled

\* C26: a tab that was disabled for a run is enabled again later, with the
\* progress bar hidden and the status showing the success or the error of
\* the run.
C26_TabReturnsToIdle ==
    (~tab_enabled) ~> (/\ tab_enabled
                       /\ ~progress_visible
                       /\ status \in {"success", "error"}
                       /\ workers = 0
                       /\ queue = <<>>)

\* C26 witness: after a run that failed the tab is enabled, the progress
\* bar hidden and the status an error.
C26_Witness ==
    /\ runs = 1
    /\ tab_enabled
    /\ ~progress_visible
    /\ status = "error"
    /\ queue = <<>>

\* C27: on the same table the two calculate_raf return the same columns and
\* the same rows in the same order, and on a reordering of the table each
\* returns its rows reordered in the same way, so a row's RAF depends on
\* nothing but the row.
C27_CalculateRafEquivalent ==
    /\ \A which \in {"given", "reordered"} :
         {<<"RAFProcessor", which>>, <<"DeploymentProcessor", which>>} \subseteq eq_done
         => /\ eq_out[<<"RAFProcessor", which>>].columns
                 = eq_out[<<"DeploymentProcessor", which>>].columns
            /\ eq_out[<<"RAFProcessor", which>>].rows
                 = eq_out[<<"DeploymentProcessor", which>>].rows
    /\ \A f \in {"RAFProcessor", "DeploymentProcessor"} :
         {<<f, "given">>, <<f, "reordered">>} \subseteq eq_done
         => /\ Len(eq_out[<<f, "reordered">>].rows) = Len(eq_df.rows)
            /\ \A i \in DOMAIN eq_df.rows :
                 eq_out[<<f, "reordered">>].rows[i] = eq_out[<<f, "given">>].rows[eq_perm[i]]

\* C27 witness: the four calls are made on a table whose two rows have
\* different RAF, one of them null, the reordering exchanging them.
C27_Witness ==
    /\ eq_done = EqCalls
    /\ Len(eq_df.rows) = 2
    /\ eq_perm = <<2, 1>>
    /\ eq_out[<<"DeploymentProcessor", "given">>].rows[1]["RAF"] = Null
    /\ eq_out[<<"DeploymentProcessor", "given">>].rows[2]["RAF"] # Null
    /\ eq_out[<<"RAFProcessor", "reordered">>].rows[1]["RAF"] # Null

\* C28 as stated: under a month of the 'RAF Summary' sheet, a week row whose
\* days are earlier in the month stands above a week row whose days are
\* later.
C28_WeeksChronological ==
    sh_pc = "done" =>
        \A j, k \in DOMAIN raf_sheet :
            (/\ j < k
             /\ raf_sheet[j].kind = "week"
             /\ raf_sheet[k].kind = "week"
             /\ YearOfRow(raf_sheet, j) = YearOfRow(raf_sheet, k)
             /\ MonthOfRow(raf_sheet, j) = MonthOfRow(raf_sheet, k)
             /\ \A i \in j..k : raf_sheet[i].kind = "week")
            => raf_sheet[j].label.days[1] < raf_sheet[k].label.days[1]

\* The values of the week rows that stand under the month row k.
RECURSIVE WeekValuesUnder(_, _)
WeekValuesUnder(sheet, k) ==
    IF k >= Len(sheet) \/ sheet[k + 1].kind # "week" THEN <<>>
    ELSE <<sheet[k + 1].value>> \o WeekValuesUnder(sheet, k + 1)

\* C29 as stated: the value of every month row of the 'RAF Summary' sheet is
\* the sum of the values of the week rows under it, and every month row has
\* a week row under it.
C29_MonthIsSumOfWeeks ==
    sh_pc = "done" =>
        \A k \in DOMAIN raf_sheet :
            raf_sheet[k].kind = "month" =>
                /\ WeekValuesUnder(raf_sheet, k) # <<>>
                /\ raf_sheet[k].value = SumSeq(WeekValuesUnder(raf_sheet, k))

\* C30 as stated: after the filter, the merge of the recomputed sums and the
\* writing of the 'somme ecart' cell, the table holds the rows of the
\* formatted table that pass the phase filter, each once, in their order,
\* and no other row, also when no row passes.
C30_ExactlySurvivingRows ==
    rs_pc = "summed" =>
        LET expected == SelectSeq(Formatted,
                                  LAMBDA row : \/ row.phase \in Range(phases_checked)
                                               \/ (row.somme # Null /\ row.somme[1] # 0))
        IN /\ Len(summary_df) = Len(expected)
           /\ \A i \in DOMAIN expected : Fixed(summary_df[i]) = Fixed(expected[i])

====
